---------------------------- MODULE Spec2Model ----------------------------
(***************************************************************************)
(* Model of the directory tree view of src/filemanager/tree.c (WTree) and  *)
(* of the tree-view event group it registers.                              *)
(*                                                                         *)
(* A tree_entry is an index into Dirs, the universe of directories the     *)
(* store may hold; NULL is 0.  The store is the list tree_first..tree_last *)
(* given as the sequence of the entries linked by prev/next.  A pointer to *)
(* an entry that is no longer in the store is a dangling pointer.          *)
(***************************************************************************)
EXTENDS Integers, Sequences, FiniteSets, TLC

VARIABLES store, tree_navigation_flag, tree, hooks, ub, last

vars == <<store, tree_navigation_flag, tree, hooks, ub, last>>

(***************************************************************************)
(* Bounds of the model.                                                    *)
(***************************************************************************)
\* widget lines of the panel view (tlines = PanelLines - 4)
PanelLines == 12
\* widget lines of the dialog-box view (tlines = BoxLines)
BoxLines == 8
\* largest store a rescan of the whole-program specification builds
MaxStore == 5
\* largest step count given to move()
MaxSteps == 3
\* largest scroll offset tried by the focus-correction specification
MaxTop == 12
\* largest widget height tried by the focus-correction specification
MaxLines == 13

NULL == 0
PATH_SEP == "/"
KEY_BACKSPACE == "BS"
\* the key 0 that "search_begin" gives tree_do_search
NUL == "NUL"
\* sizeof (search_buffer), scaled with the names of Dirs: as in the program,
\* one more than the longest directory name
MC_MAXFILENAMELEN == 3
\* the printable keys tried
Keys == {"a", "x", "y", "z", "A"}

(***************************************************************************)
(* The directories: full path of every tree_entry, in store order.         *)
(***************************************************************************)
Dirs ==
  << <<"/">>,
     <<"/", "a">>,
     <<"/", "a", "/", "x">>,
     <<"/", "a", "/", "x", "y">>,
     <<"/", "a", "b">>,
     <<"/", "a", "b", "/", "x">>,
     <<"/", "b">>,
     <<"/", "b", "/", "a">>,
     <<"/", "b", "/", "a", "/", "x">>,
     <<"/", "c">>,
     <<"/", "x">>,
     <<"/", "x", "/", "x">>,
     <<"/", "x", "/", "x", "/", "x">>,
     <<"/", "x", "/", "x", "/", "x", "/", "x">>,
     <<"/", "x", "/", "x", "/", "x", "/", "x", "/", "x">>,
     <<"/", "x", "/", "x", "/", "x", "/", "x", "/", "x", "/", "x">>,
     <<"/", "x", "/", "x", "/", "x", "/", "x", "/", "x", "/", "x", "/", "x">>,
     <<"/", "x", "/", "x", "/", "x", "/", "x", "/", "x", "/", "x", "/", "x", "/", "x">> >>

\* the directories that exist on the disk: what a rescan can find and "chdir"
\* can ask for; the entries after them are those of DeepStore
Entries == 1..10

Views == {1, 2}

name(e) == Dirs[e]

RECURSIVE CountSep(_, _)
CountSep(s, i) ==
  IF i > Len(s) THEN 0
  ELSE (IF s[i] = PATH_SEP THEN 1 ELSE 0) + CountSep(s, i + 1)

\* index of the last PATH_SEP of a path (every path has one)
RECURSIVE LastSep(_, _)
LastSep(s, j) == IF s[j] = PATH_SEP THEN j ELSE LastSep(s, j - 1)

\* struct tree_entry: the sublevel and the subname the store derives from the name
tree_entry ==
  [e \in 1..Len(Dirs) |->
     [sublevel |-> IF name(e) = <<PATH_SEP>> THEN 0 ELSE CountSep(name(e), 1),
      subname |-> SubSeq(name(e), LastSep(name(e), Len(name(e))) + 1, Len(name(e)))]]

sublevel(e) == tree_entry[e].sublevel

subname(e) == tree_entry[e].subname

\* strncmp (a, b, n) == 0
StrNEq(a, b, n) ==
  IF n <= Len(a) /\ n <= Len(b)
  THEN SubSeq(a, 1, n) = SubSeq(b, 1, n)
  ELSE a = b

vfs_path_len(e) == Len(name(e))
vfs_path_equal(e1, e2) == name(e1) = name(e2)
vfs_path_equal_len(e1, e2, n) == StrNEq(name(e1), name(e2), n)

(***************************************************************************)
(* The store: list access and the external operations on it.               *)
(***************************************************************************)
InStore(st, e) == \E i \in 1..Len(st) : st[i] = e

Pos(st, e) == CHOOSE i \in 1..Len(st) : st[i] = e

tree_first(st) == IF Len(st) = 0 THEN NULL ELSE st[1]
tree_last(st) == IF Len(st) = 0 THEN NULL ELSE st[Len(st)]

next(st, e) == LET p == Pos(st, e) IN IF p < Len(st) THEN st[p + 1] ELSE NULL
prev(st, e) == LET p == Pos(st, e) IN IF p > 1 THEN st[p - 1] ELSE NULL

\* the entries of a set in store order
RECURSIVE SeqOf(_, _)
SeqOf(S, e) ==
  IF e > Len(Dirs) THEN <<>>
  ELSE (IF e \in S THEN <<e>> ELSE <<>>) \o SeqOf(S, e + 1)

SetOf(st) == {st[i] : i \in 1..Len(st)}

\* e is d itself or lies below d
Under(e, d) ==
  /\ Len(name(e)) >= Len(name(d))
  /\ SubSeq(name(e), 1, Len(name(d))) = name(d)
  /\ \/ Len(name(e)) = Len(name(d))
     \/ name(e)[Len(name(d)) + 1] = PATH_SEP
     \/ name(d) = <<PATH_SEP>>

IsChild(e, d) == e # d /\ Under(e, d) /\ sublevel(e) = sublevel(d) + 1

WellFormed(st) ==
  /\ Len(st) > 0 => st[1] = 1
  /\ st = SeqOf(SetOf(st), 1)
  /\ \A e \in SetOf(st) : e # 1 => \E d \in SetOf(st) : IsChild(e, d)

(***************************************************************************)
(* The view (struct WTree).                                                *)
(***************************************************************************)
tlines(t) == IF t.is_panel THEN t.lines - 2 - 2 ELSE t.lines

NoView(v) ==
  [alive |-> FALSE, is_panel |-> (v = 1),
   lines |-> IF v = 1 THEN PanelLines ELSE BoxLines,
   selected_ptr |-> NULL, search_buffer |-> <<>>, tree_shown |-> <<>>,
   active |-> FALSE, searching |-> FALSE, topdiff |-> 0]

\* back_ptr taking one step more than asked
RECURSIVE back_ptr_one_more(_, _, _, _)
back_ptr_one_more(st, ptr, count, i) ==
  IF ptr # NULL /\ prev(st, ptr) # NULL /\ i <= count
  THEN back_ptr_one_more(st, prev(st, ptr), count, i + 1)
  ELSE [ptr |-> ptr, count |-> i]

RECURSIVE back_ptr(_, _, _, _)
back_ptr(st, ptr, count, i) ==
  IF ptr # NULL /\ prev(st, ptr) # NULL /\ i < count
  THEN back_ptr(st, prev(st, ptr), count, i + 1)
  ELSE [ptr |-> ptr, count |-> i]

RECURSIVE forw_ptr(_, _, _, _)
forw_ptr(st, ptr, count, i) ==
  IF ptr # NULL /\ next(st, ptr) # NULL /\ i < count
  THEN forw_ptr(st, next(st, ptr), count, i + 1)
  ELSE [ptr |-> ptr, count |-> i]

\* tree_check_focus with > for >= in the lower-margin test
tree_check_focus_gt(t) ==
  IF t.topdiff < 3 THEN [t EXCEPT !.topdiff = 3]
  ELSE IF t.topdiff > tlines(t) - 3 THEN [t EXCEPT !.topdiff = tlines(t) - 3 - 1]
  ELSE t

tree_check_focus(t) ==
  IF t.topdiff < 3 THEN [t EXCEPT !.topdiff = 3]
  ELSE IF t.topdiff >= tlines(t) - 3 THEN [t EXCEPT !.topdiff = tlines(t) - 3 - 1]
  ELSE t

\* the loop of tree_move_backward in the 2d navigation mode
RECURSIVE BackwardLoop(_, _, _, _, _)
BackwardLoop(st, sel, current, i, j) ==
  IF j < i /\ prev(st, current) # NULL
       /\ sublevel(prev(st, current)) >= sublevel(sel)
  THEN IF sublevel(prev(st, current)) = sublevel(sel)
       THEN BackwardLoop(st, prev(st, current), prev(st, current), i, j + 1)
       ELSE BackwardLoop(st, sel, prev(st, current), i, j)
  ELSE [ptr |-> sel, count |-> j]

\* the forward loop selecting entries of any sublevel it passes
RECURSIVE ForwardLoop_any_level(_, _, _, _, _)
ForwardLoop_any_level(st, sel, current, i, j) ==
  IF j < i /\ next(st, current) # NULL
       /\ sublevel(next(st, current)) >= sublevel(sel)
  THEN ForwardLoop_any_level(st, next(st, current), next(st, current), i, j + 1)
  ELSE [ptr |-> sel, count |-> j]

\* the loop of tree_move_forward in the 2d navigation mode
RECURSIVE ForwardLoop(_, _, _, _, _)
ForwardLoop(st, sel, current, i, j) ==
  IF j < i /\ next(st, current) # NULL
       /\ sublevel(next(st, current)) >= sublevel(sel)
  THEN IF sublevel(next(st, current)) = sublevel(sel)
       THEN ForwardLoop(st, next(st, current), next(st, current), i, j + 1)
       ELSE ForwardLoop(st, sel, next(st, current), i, j)
  ELSE [ptr |-> sel, count |-> j]

\* tree_move_backward without the call of tree_check_focus
tree_move_backward_no_focus(t, st, nav, i) ==
  LET r == IF ~nav THEN back_ptr(st, t.selected_ptr, i, 0)
           ELSE BackwardLoop(st, t.selected_ptr, t.selected_ptr, i, 0)
  IN [t EXCEPT !.selected_ptr = r.ptr, !.topdiff = t.topdiff - r.count]

tree_move_backward(t, st, nav, i) ==
  LET r == IF ~nav THEN back_ptr(st, t.selected_ptr, i, 0)
           ELSE BackwardLoop(st, t.selected_ptr, t.selected_ptr, i, 0)
  IN tree_check_focus([t EXCEPT !.selected_ptr = r.ptr,
                                !.topdiff = t.topdiff - r.count])

\* tree_move_forward adding the steps asked for, not the steps taken
tree_move_forward_asked(t, st, nav, i) ==
  LET r == IF ~nav THEN forw_ptr(st, t.selected_ptr, i, 0)
           ELSE ForwardLoop(st, t.selected_ptr, t.selected_ptr, i, 0)
  IN tree_check_focus([t EXCEPT !.selected_ptr = r.ptr, !.topdiff = t.topdiff + i])

tree_move_forward(t, st, nav, i) ==
  LET r == IF ~nav THEN forw_ptr(st, t.selected_ptr, i, 0)
           ELSE ForwardLoop(st, t.selected_ptr, t.selected_ptr, i, 0)
  IN tree_check_focus([t EXCEPT !.selected_ptr = r.ptr,
                                !.topdiff = t.topdiff + r.count])

\* the child test taking an entry of the same sublevel for a child
HasChildNext_same_level(t, st) ==
  /\ next(st, t.selected_ptr) # NULL
  /\ sublevel(next(st, t.selected_ptr)) >= sublevel(t.selected_ptr)

\* does tree_move_to_child find a child right after the selection
HasChildNext(t, st) ==
  /\ next(st, t.selected_ptr) # NULL
  /\ sublevel(next(st, t.selected_ptr)) > sublevel(t.selected_ptr)

\* the selection of the child that leaves topdiff as it is
SelectChild_no_count(t, st) ==
  tree_check_focus([t EXCEPT !.selected_ptr = next(st, t.selected_ptr)])

SelectChild(t, st) ==
  tree_check_focus([t EXCEPT !.selected_ptr = next(st, t.selected_ptr),
                             !.topdiff = t.topdiff + 1])

\* tree_move_to_child counting a row also when it finds no child
tree_move_to_child_counts(t, st, st2) ==
  IF t.selected_ptr = NULL THEN t
  ELSE IF HasChildNext(t, st) THEN SelectChild(t, st)
  ELSE IF HasChildNext(t, st2) THEN SelectChild(t, st2)
  ELSE [t EXCEPT !.topdiff = t.topdiff + 1]

\* st2 is the store the "rescan" event leaves
tree_move_to_child(t, st, st2) ==
  IF t.selected_ptr = NULL THEN t
  ELSE IF HasChildNext(t, st) THEN SelectChild(t, st)
  ELSE IF HasChildNext(t, st2) THEN SelectChild(t, st2)
  ELSE t

\* the loop of tree_move_to_parent stopping at an entry of the same sublevel
RECURSIVE ParentLoop_gt(_, _, _, _)
ParentLoop_gt(st, sel, current, topdiff) ==
  IF current # NULL /\ sublevel(current) > sublevel(sel)
  THEN ParentLoop_gt(st, sel, prev(st, current), topdiff - 1)
  ELSE [ptr |-> current, topdiff |-> topdiff]

\* the loop of tree_move_to_parent
RECURSIVE ParentLoop(_, _, _, _)
ParentLoop(st, sel, current, topdiff) ==
  IF current # NULL /\ sublevel(current) >= sublevel(sel)
  THEN ParentLoop(st, sel, prev(st, current), topdiff - 1)
  ELSE [ptr |-> current, topdiff |-> topdiff]

\* tree_move_to_parent without the fallback to tree_first
tree_move_to_parent_no_first(t, st) ==
  IF t.selected_ptr = NULL THEN [t |-> t, ret |-> FALSE]
  ELSE LET r == ParentLoop(st, t.selected_ptr, prev(st, t.selected_ptr), t.topdiff)
           t2 == tree_check_focus([t EXCEPT !.selected_ptr = r.ptr,
                                            !.topdiff = r.topdiff])
       IN [t |-> t2, ret |-> t2.selected_ptr # t.selected_ptr]

tree_move_to_parent(t, st) ==
  IF t.selected_ptr = NULL THEN [t |-> t, ret |-> FALSE]
  ELSE LET r == ParentLoop(st, t.selected_ptr, prev(st, t.selected_ptr), t.topdiff)
           current == IF r.ptr = NULL THEN tree_first(st) ELSE r.ptr
           t2 == tree_check_focus([t EXCEPT !.selected_ptr = current,
                                            !.topdiff = r.topdiff])
       IN [t |-> t2, ret |-> t2.selected_ptr # t.selected_ptr]

tree_move_to_top(t, st) ==
  [t EXCEPT !.selected_ptr = tree_first(st), !.topdiff = 0]

\* tree_move_to_bottom leaving a margin of two lines
tree_move_to_bottom_margin(t, st) ==
  [t EXCEPT !.selected_ptr = tree_last(st), !.topdiff = tlines(t) - 3]

tree_move_to_bottom(t, st) ==
  [t EXCEPT !.selected_ptr = tree_last(st), !.topdiff = tlines(t) - 3 - 1]


(***************************************************************************)
(* show_tree: the rows shown and the corrected topdiff.                    *)
(***************************************************************************)
\* 0-based index of the last PATH_SEP of the entry's name (the j of show_tree)
LastSepIdx(e) == LastSep(name(e), Len(name(e))) - 1

\* does the backward walk of the 2d mode count entry c as a row above sel
CountsAbove(c, sel) ==
  IF sublevel(c) < sublevel(sel) THEN vfs_path_equal(c, sel)
  ELSE IF sublevel(c) = sublevel(sel) THEN vfs_path_equal_len(c, sel, LastSepIdx(c))
  ELSE /\ sublevel(c) = sublevel(sel) + 1
       /\ vfs_path_len(sel) > 1
       /\ vfs_path_equal_len(c, sel, vfs_path_len(sel))

\* does the forward skip of the 2d mode stop at entry c
StopsAt(c, sel) ==
  IF sublevel(c) < sublevel(sel) THEN vfs_path_equal_len(c, sel, vfs_path_len(c))
  ELSE IF sublevel(c) = sublevel(sel) THEN vfs_path_equal_len(c, sel, LastSepIdx(c))
  ELSE /\ sublevel(c) = sublevel(sel) + 1
       /\ vfs_path_len(sel) > 1
       /\ vfs_path_equal_len(c, sel, vfs_path_len(sel))

\* the topmost line in the 2d mode: walk back until topdiff rows are counted
RECURSIVE TopLoop(_, _, _, _, _)
TopLoop(st, sel, current, topdiff, i) ==
  IF prev(st, current) # NULL /\ i < topdiff
  THEN TopLoop(st, sel, prev(st, current), topdiff,
               IF CountsAbove(prev(st, current), sel) THEN i + 1 ELSE i)
  ELSE [ptr |-> current, count |-> i]

\* the next entry to show after current
RECURSIVE SkipLoop(_, _, _)
SkipLoop(st, sel, current) ==
  IF current = NULL THEN NULL
  ELSE IF StopsAt(current, sel) THEN current
  ELSE SkipLoop(st, sel, next(st, current))

NextShown(st, sel, current, nav) ==
  IF nav THEN SkipLoop(st, sel, next(st, current)) ELSE next(st, current)

RECURSIVE Rows(_, _, _, _, _)
Rows(st, sel, current, nav, n) ==
  IF n = 0 THEN <<>>
  ELSE IF current = NULL THEN <<NULL>> \o Rows(st, sel, NULL, nav, n - 1)
  ELSE <<current>> \o Rows(st, sel, NextShown(st, sel, current, nav), nav, n - 1)

\* the selection show_tree works with (lines 296-300)
ShownSelection(t, st) ==
  IF t.selected_ptr = NULL THEN tree_first(st) ELSE t.selected_ptr

\* show_tree dereferences a null selection (lines 309 and 262)
ShowTreeNullDeref(t, st, nav) ==
  ShownSelection(t, st) = NULL /\ (nav \/ ~t.searching)

show_tree(t, st, nav) ==
  LET sel == ShownSelection(t, st)
      topdiff == IF t.selected_ptr = NULL THEN 0 ELSE t.topdiff
      top == IF sel = NULL THEN [ptr |-> NULL, count |-> 0]
             ELSE IF ~nav THEN back_ptr(st, sel, topdiff, 0)
             ELSE TopLoop(st, sel, sel, topdiff, 0)
  IN [t EXCEPT !.selected_ptr = sel,
               !.topdiff = top.count,
               !.tree_shown = Rows(st, sel, top.ptr, nav, tlines(t))]

(***************************************************************************)
(* Searching: search_tree and tree_do_search.                              *)
(***************************************************************************)
\* the loop of search_tree testing the selection after every other entry
RECURSIVE SearchLoop_selection_last(_, _, _, _, _, _)
SearchLoop_selection_last(st, sel, current, wrapped, topdiff, text) ==
  IF wrapped /\ current = sel
  THEN [ptr |-> sel, found |-> StrNEq(subname(sel), text, Len(text)), topdiff |-> topdiff]
  ELSE IF current # sel /\ StrNEq(subname(current), text, Len(text))
  THEN [ptr |-> current, found |-> TRUE, topdiff |-> topdiff]
  ELSE IF next(st, current) = NULL
  THEN SearchLoop_selection_last(st, sel, tree_first(st), TRUE, topdiff + 1, text)
  ELSE SearchLoop_selection_last(st, sel, next(st, current), wrapped, topdiff + 1, text)

\* the loop of search_tree
RECURSIVE SearchLoop(_, _, _, _, _, _)
SearchLoop(st, sel, current, wrapped, topdiff, text) ==
  IF ~wrapped \/ current # sel
  THEN IF StrNEq(subname(current), text, Len(text))
       THEN [ptr |-> current, found |-> TRUE, topdiff |-> topdiff]
       ELSE IF next(st, current) = NULL
            THEN SearchLoop(st, sel, tree_first(st), TRUE, topdiff + 1, text)
            ELSE SearchLoop(st, sel, next(st, current), wrapped, topdiff + 1, text)
  ELSE [ptr |-> sel, found |-> FALSE, topdiff |-> topdiff]

search_tree(t, st, text) ==
  LET r == SearchLoop(st, t.selected_ptr, t.selected_ptr, FALSE, t.topdiff, text)
  IN [t |-> tree_check_focus([t EXCEPT !.selected_ptr = r.ptr, !.topdiff = r.topdiff]),
      found |-> r.found]

\* the search buffer after the key is applied (lines 684-691)
EditBuffer(buf, key) ==
  IF Len(buf) # 0 /\ key = KEY_BACKSPACE THEN SubSeq(buf, 1, Len(buf) - 1)
  ELSE IF key # NUL /\ Len(buf) < MC_MAXFILENAMELEN THEN Append(buf, key)
  ELSE buf

\* the terminator of the appended key is written behind search_buffer
BufferOverrun(buf, key) ==
  /\ ~(Len(buf) # 0 /\ key = KEY_BACKSPACE)
  /\ key # NUL
  /\ Len(buf) < MC_MAXFILENAMELEN
  /\ Len(buf) + 1 >= MC_MAXFILENAMELEN

\* the roll-back that leaves the key in the buffer
RollBack_keeps_key(buf) == buf

\* search_buffer[--l] = 0
RollBack(buf) == SubSeq(buf, 1, Len(buf) - 1)

\* lines 684-694 of tree_do_search: the edit, the scan and the roll-back
SearchStep(t, st, key) ==
  LET buf == EditBuffer(t.search_buffer, key)
      r == search_tree([t EXCEPT !.search_buffer = buf], st, buf)
  IN IF r.found THEN r.t ELSE [r.t EXCEPT !.search_buffer = RollBack(buf)]

(***************************************************************************)
(* Creation: tree_new, load_tree and the "chdir" event.                    *)
(***************************************************************************)
\* the "chdir" handler correcting the focus also when nothing is found
mc_tree_cmd_chdir_always_focus(t, current) ==
  tree_check_focus(IF current # NULL THEN [t EXCEPT !.selected_ptr = current] ELSE t)

\* current is what tree_store_whereis found for the directory, or NULL
mc_tree_cmd_chdir(t, current) ==
  IF current # NULL THEN tree_check_focus([t EXCEPT !.selected_ptr = current])
  ELSE t

load_tree(t, st, home) ==
  mc_tree_cmd_chdir([t EXCEPT !.selected_ptr = tree_first(st)], home)

tree_new(v, st, home) ==
  load_tree([NoView(v) EXCEPT !.alive = TRUE, !.topdiff = NoView(v).lines \div 2],
            st, home)

(***************************************************************************)
(* Stores and views the specifications start from.                         *)
(***************************************************************************)
FullStore == SeqOf(Entries, 1)
ScenarioStore == <<1, 2, 3, 7>>
InitStores == {FullStore, ScenarioStore, <<1, 2, 3, 5, 6, 7, 8>>, <<1>>}
\* the root and a chain of eight directories, each in the one before
DeepStore == <<1, 11, 12, 13, 14, 15, 16, 17, 18>>

NoOp == [op |-> "init", v |-> 0, n |-> 0, sel |-> NULL, top |-> 0,
         ret |-> FALSE, rescan |-> FALSE, key |-> NUL]

Did(o, v, n, t, ret, rescan) ==
  [op |-> o, v |-> v, n |-> n, sel |-> t.selected_ptr, top |-> 0,
   ret |-> ret, rescan |-> rescan, key |-> NUL]

\* the note a step of the whole program leaves: what ran and what it returned
Ran(o, v, ret) ==
  [op |-> o, v |-> v, n |-> 0, sel |-> NULL, top |-> 0, ret |-> ret, rescan |-> FALSE,
   key |-> NUL]

\* what tree_store_rescan may leave: the store, or the store with
\* directories found below the scanned entry added
RescanOutcomes(st, e) ==
  {st} \cup {SeqOf(SetOf(st) \cup A, 1) :
               A \in (SUBSET {c \in Entries : IsChild(c, e) /\ ~InStore(st, c)}) \ {{}}}

\* the outcomes tried by the whole-program specification: the scan finds new
\* directories only while the store holds fewer than MaxStore entries
BoundedRescan(st, e) ==
  {st2 \in RescanOutcomes(st, e) : st2 = st \/ Len(st2) <= MaxStore}

(***************************************************************************)
(* The store's removal of an entry and the views' remove hook.             *)
(***************************************************************************)
\* remove_callback taking prev before next
remove_callback_prev_first(t, st, entry) ==
  IF t.selected_ptr = entry
  THEN [t EXCEPT !.selected_ptr = IF prev(st, entry) # NULL THEN prev(st, entry)
                                  ELSE next(st, entry)]
  ELSE t

\* remove_callback reseating the selection whatever entry is removed
remove_callback_any_entry(t, st, entry) ==
  [t EXCEPT !.selected_ptr = IF next(st, entry) # NULL THEN next(st, entry)
                             ELSE prev(st, entry)]

remove_callback(t, st, entry) ==
  IF t.selected_ptr = entry
  THEN [t EXCEPT !.selected_ptr = IF next(st, entry) # NULL THEN next(st, entry)
                                  ELSE prev(st, entry)]
  ELSE t

Hooked(hk, v) == \E i \in 1..Len(hk) : hk[i] = v

\* the store hands the entry to every hook and then unlinks and frees it
remove_entry(w, e) ==
  [w EXCEPT !.tree = [v \in Views |->
                        IF Hooked(w.hooks, v) THEN remove_callback(w.tree[v], w.store, e)
                        ELSE w.tree[v]],
            !.store = SeqOf(SetOf(w.store) \ {e}, 1)]

RECURSIVE RemoveAll(_, _)
RemoveAll(w, victims) ==
  IF victims = <<>> THEN w
  ELSE CHOOSE r \in {RemoveAll(x, Tail(victims)) : x \in {remove_entry(w, Head(victims))}} :
         TRUE

\* tree_store_remove_entry: the entries below base go first, base goes last
tree_store_remove_entry(w, base) ==
  IF ~InStore(w.store, base) THEN w
  ELSE RemoveAll(w, SeqOf({e \in SetOf(w.store) : e # base /\ Under(e, base)}, 1)
                    \o <<base>>)

(***************************************************************************)
(* The statements of the handlers on the world w = [store, nav, tree,      *)
(* hooks, ub, b]: ub is set when a statement dereferences a null or        *)
(* dangling pointer or writes behind search_buffer, and nothing is defined *)
(* after that; b is the boolean of the event's result slot.                *)
(***************************************************************************)
World == [store |-> store, nav |-> tree_navigation_flag, tree |-> tree,
          hooks |-> hooks, ub |-> ub, b |-> TRUE]

Dangling(t, st) == t.selected_ptr # NULL /\ ~InStore(st, t.selected_ptr)

Undefined(w) == [w EXCEPT !.ub = TRUE]

\* tree->selected_ptr->name
W_deref(w, v) ==
  IF w.tree[v].selected_ptr = NULL \/ Dangling(w.tree[v], w.store) THEN Undefined(w)
  ELSE w

W_show_tree(w, v) ==
  IF Dangling(w.tree[v], w.store) \/ ShowTreeNullDeref(w.tree[v], w.store, w.nav)
  THEN Undefined(w)
  ELSE [w EXCEPT !.tree[v] = show_tree(@, w.store, w.nav)]

\* MSG_UNFOCUS that leaves the view searching
W_unfocus_keeps_searching(w, v) == W_show_tree([w EXCEPT !.tree[v].active = FALSE], v)

\* MSG_FOCUS and MSG_UNFOCUS of tree_callback
W_focus(w, v) == W_show_tree([w EXCEPT !.tree[v].active = TRUE], v)

W_unfocus(w, v) ==
  W_show_tree([w EXCEPT !.tree[v].active = FALSE, !.tree[v].searching = FALSE], v)

\* change_panel: the focus leaves the view that has it, or comes to it
change_panel(w, v) == IF w.tree[v].active THEN W_unfocus(w, v) ELSE W_focus(w, v)

W_move_backward(w, v, n) ==
  IF Dangling(w.tree[v], w.store) \/ (w.nav /\ w.tree[v].selected_ptr = NULL)
  THEN Undefined(w)
  ELSE [w EXCEPT !.tree[v] = tree_move_backward(@, w.store, w.nav, n)]

W_move_forward(w, v, n) ==
  IF Dangling(w.tree[v], w.store) \/ (w.nav /\ w.tree[v].selected_ptr = NULL)
  THEN Undefined(w)
  ELSE [w EXCEPT !.tree[v] = tree_move_forward(@, w.store, w.nav, n)]

\* the step of "search_begin" taken in the navigation mode that is set
W_move_forward_nav(w, v) ==
  IF Dangling(w.tree[v], w.store) THEN Undefined(w)
  ELSE [w EXCEPT !.tree[v] = tree_move_forward(@, w.store, w.nav, 1)]

\* lines 1408-1411 of mc_tree_cmd_search_begin
W_move_forward_1d(w, v) ==
  IF Dangling(w.tree[v], w.store) THEN Undefined(w)
  ELSE [w EXCEPT !.tree[v] = tree_move_forward(@, w.store, FALSE, 1)]

W_move_to_parent(w, v) ==
  IF Dangling(w.tree[v], w.store) THEN Undefined(w)
  ELSE [w EXCEPT !.tree[v] = tree_move_to_parent(@, w.store).t,
                 !.b = tree_move_to_parent(w.tree[v], w.store).ret]

\* st2 is what tree_store_rescan makes of the store
mc_tree_cmd_rescan(w, v, st2) ==
  IF Dangling(w.tree[v], w.store) THEN Undefined(w)
  ELSE IF w.tree[v].selected_ptr # NULL THEN [w EXCEPT !.store = st2]
  ELSE w

W_move_to_child(w, v, st2) ==
  IF Dangling(w.tree[v], w.store) THEN Undefined(w)
  ELSE IF w.tree[v].selected_ptr = NULL THEN w
  ELSE IF HasChildNext(w.tree[v], w.store)
  THEN [w EXCEPT !.tree[v] = tree_move_to_child(@, w.store, w.store)]
  ELSE [w EXCEPT !.store = st2, !.tree[v] = tree_move_to_child(@, w.store, st2)]

W_move_to_top(w, v) == [w EXCEPT !.tree[v] = tree_move_to_top(@, w.store)]

W_move_to_bottom(w, v) == [w EXCEPT !.tree[v] = tree_move_to_bottom(@, w.store)]

\* lines 684-694 of tree_do_search
W_search(w, v, key) ==
  IF w.tree[v].selected_ptr = NULL \/ Dangling(w.tree[v], w.store)
       \/ BufferOverrun(w.tree[v].search_buffer, key)
  THEN Undefined([w EXCEPT !.tree[v] =
                    IF w.tree[v].selected_ptr = NULL \/ Dangling(w.tree[v], w.store)
                    THEN @ ELSE SearchStep(@, w.store, key)])
  ELSE [w EXCEPT !.tree[v] = SearchStep(@, w.store, key)]

\* tree_remove_entry (tree, tree->selected_ptr->name)
W_remove_selected(w, v) ==
  IF Dangling(w.tree[v], w.store) THEN Undefined(w)
  ELSE tree_store_remove_entry(w, w.tree[v].selected_ptr)

\* the click that takes the line under the one clicked for topdiff
W_select_shown_line_below(w, v, y) ==
  IF w.tree[v].tree_shown[y + 1] # NULL
  THEN [w EXCEPT !.tree[v].selected_ptr = w.tree[v].tree_shown[y + 1],
                 !.tree[v].topdiff = y + 1]
  ELSE w

\* lines 630-634 of tree_event: the click on line y selects what is shown there
W_select_shown(w, v, y) ==
  IF w.tree[v].tree_shown[y + 1] # NULL
  THEN [w EXCEPT !.tree[v].selected_ptr = w.tree[v].tree_shown[y + 1],
                 !.tree[v].topdiff = y]
  ELSE w

xtree_mode == FALSE

\* the toggle that only ever sets the flag
mc_tree_cmd_navigation_mode_set(w) == [w EXCEPT !.nav = TRUE]

\* tree_navigation_flag = !tree_navigation_flag
mc_tree_cmd_navigation_mode_toggle(w) == [w EXCEPT !.nav = ~w.nav]

(***************************************************************************)
(* The handlers as the lists of their statements.                          *)
(***************************************************************************)
\* a statement: its name s and its arguments
Stmt(s) == [s |-> s, ev |-> "", n |-> 0, key |-> NUL, st |-> <<>>, flag |-> FALSE]

Move(s, n) == [Stmt(s) EXCEPT !.n = n]

\* a call of the routine ev, or the handler of the event ev
Call(ev) == [Stmt("call") EXCEPT !.ev = ev]

\* the dialog of the box view stops and "show_box" reads the selected name
mc_tree_cmd_enter(t) ==
  IF t.is_panel
  THEN <<Stmt("change_panel"), Stmt("deref"), Stmt("change_panel"), Stmt("show_tree")>>
  ELSE <<Stmt("deref")>>

maybe_chdir(t) == IF xtree_mode /\ t.is_panel THEN <<Call("enter")>> ELSE <<>>

tree_do_search(key) ==
  <<[Stmt("search") EXCEPT !.key = key], Stmt("show_tree"), Call("maybe_chdir")>>

mc_tree_cmd_forget(t) ==
  IF t.selected_ptr # NULL THEN <<Stmt("remove_selected")>> ELSE <<>>

mc_tree_cmd_copy(t) == IF t.selected_ptr = NULL THEN <<>> ELSE <<Stmt("deref")>>

mc_tree_cmd_goto(move) == <<move, Stmt("show_tree"), Call("maybe_chdir")>>

\* the "goto_left" handler moving to the parent in either mode
mc_tree_cmd_goto_left_any_mode(nav) ==
  <<[Stmt("set_b") EXCEPT !.flag = FALSE],
    Stmt("move_to_parent"), Stmt("show_tree"), Call("maybe_chdir")>>

mc_tree_cmd_goto_left(nav) ==
  <<[Stmt("set_b") EXCEPT !.flag = FALSE]>>
  \o (IF nav THEN <<Stmt("move_to_parent"), Stmt("show_tree"), Call("maybe_chdir")>>
      ELSE <<>>)

mc_tree_cmd_goto_right(nav, st2) ==
  <<[Stmt("set_b") EXCEPT !.flag = FALSE]>>
  \o (IF nav
      THEN <<[Stmt("move_to_child") EXCEPT !.st = st2], Stmt("show_tree"),
             Call("maybe_chdir"), [Stmt("set_b") EXCEPT !.flag = TRUE]>>
      ELSE <<>>)

mc_tree_cmd_search_begin(t, st) ==
  IF t.searching
  THEN <<IF t.selected_ptr = tree_last(st) THEN Stmt("move_to_top")
         ELSE Stmt("move_forward_1d")>>
       \o tree_do_search(NUL)
  ELSE <<Stmt("search_on")>>

\* the "rmdir" handler putting FALSE into the result slot when nothing is erased
mc_tree_cmd_rmdir_reports_failure(t, erased) ==
  IF t.selected_ptr = NULL THEN <<>>
  ELSE <<Stmt("deref")>>
       \o (IF erased THEN <<Call("forget")>> ELSE <<[Stmt("set_b") EXCEPT !.flag = FALSE]>>)

\* erased: the user confirmed and erase_dir returned FILE_CONT
mc_tree_cmd_rmdir(t, erased) ==
  IF t.selected_ptr = NULL THEN <<>>
  ELSE <<Stmt("deref")>> \o (IF erased THEN <<Call("forget")>> ELSE <<>>)

(***************************************************************************)
(* The event group and the command router.                                 *)
(***************************************************************************)
\* the table with the row of "rescan" twice
treeview_group_events_twice ==
  <<"help", "forget", "navigation_mode_toggle", "copy", "move", "goto_up",
    "goto_down", "goto_home", "goto_end", "goto_page_up", "goto_page_down",
    "goto_left", "goto_right", "enter", "rescan", "rescan", "search_begin", "rmdir",
    "chdir", "show_box">>

\* the rows of the table, each the name of an event with its handler
treeview_group_events ==
  <<"help", "forget", "navigation_mode_toggle", "copy", "move", "goto_up",
    "goto_down", "goto_home", "goto_end", "goto_page_up", "goto_page_down",
    "goto_left", "goto_right", "enter", "rescan", "search_begin", "rmdir",
    "chdir", "show_box">>

\* the names mc_event_mass_add registers in the group
treeview_group_names ==
  {treeview_group_events[i] : i \in DOMAIN treeview_group_events}

Commands ==
  {"CK_Help", "CK_Forget", "CK_ToggleNavigation", "CK_Copy", "CK_Move", "CK_Up",
   "CK_Down", "CK_Left", "CK_Right", "CK_Top", "CK_Bottom", "CK_PageUp",
   "CK_PageDown", "CK_Enter", "CK_Reread", "CK_Search", "CK_Delete", "CK_Quit"}

\* the switch of tree_execute_cmd; "" is the NULL event name
event_name(command) ==
  CASE command = "CK_Help" -> "help"
    [] command = "CK_Forget" -> "forget"
    [] command = "CK_ToggleNavigation" -> "navigation_mode_toggle"
    [] command = "CK_Copy" -> "copy"
    [] command = "CK_Move" -> "move"
    [] command = "CK_Up" -> "goto_up"
    [] command = "CK_Down" -> "goto_down"
    [] command = "CK_Left" -> "goto_left"
    [] command = "CK_Right" -> "goto_right"
    [] command = "CK_Top" -> "goto_home"
    [] command = "CK_Bottom" -> "goto_end"
    [] command = "CK_PageUp" -> "goto_page_up"
    [] command = "CK_PageDown" -> "goto_page_down"
    [] command = "CK_Enter" -> "enter"
    [] command = "CK_Reread" -> "rescan"
    [] command = "CK_Search" -> "search_begin"
    [] command = "CK_Delete" -> "rmdir"
    [] OTHER -> ""

\* the statements of the routine, or of the handler the event group holds for
\* the name, called on the world w for the view v; c.st and c.flag are the
\* answers of the collaborators the handler calls
Body(w, v, c) ==
  CASE c.ev = "maybe_chdir" -> maybe_chdir(w.tree[v])
    [] c.ev = "forget" -> mc_tree_cmd_forget(w.tree[v])
    [] c.ev = "navigation_mode_toggle" -> <<Stmt("toggle")>>
    [] c.ev \in {"copy", "move"} -> mc_tree_cmd_copy(w.tree[v])
    [] c.ev = "goto_up" -> mc_tree_cmd_goto(Move("move_backward", 1))
    [] c.ev = "goto_down" -> mc_tree_cmd_goto(Move("move_forward", 1))
    [] c.ev = "goto_home" -> mc_tree_cmd_goto(Stmt("move_to_top"))
    [] c.ev = "goto_end" -> mc_tree_cmd_goto(Stmt("move_to_bottom"))
    [] c.ev = "goto_page_up" ->
         mc_tree_cmd_goto(Move("move_backward", tlines(w.tree[v]) - 1))
    [] c.ev = "goto_page_down" ->
         mc_tree_cmd_goto(Move("move_forward", tlines(w.tree[v]) - 1))
    [] c.ev = "goto_left" -> mc_tree_cmd_goto_left(w.nav)
    [] c.ev = "goto_right" -> mc_tree_cmd_goto_right(w.nav, c.st)
    [] c.ev = "enter" -> mc_tree_cmd_enter(w.tree[v])
    [] c.ev = "rescan" -> <<[Stmt("rescan") EXCEPT !.st = c.st]>>
    [] c.ev = "search_begin" -> mc_tree_cmd_search_begin(w.tree[v], w.store)
    [] c.ev = "rmdir" -> mc_tree_cmd_rmdir(w.tree[v], c.flag)
    [] OTHER -> <<>>

RECURSIVE Exec(_, _, _)

\* one statement run on the world w
Do(w, v, c) ==
  IF w.ub THEN w
  ELSE CASE c.s = "call" -> Exec(w, v, Body(w, v, c))
         [] c.s = "show_tree" -> W_show_tree(w, v)
         [] c.s = "change_panel" -> change_panel(w, v)
         [] c.s = "focus" -> W_focus(w, v)
         [] c.s = "unfocus" -> W_unfocus(w, v)
         [] c.s = "deref" -> W_deref(w, v)
         [] c.s = "move_backward" -> W_move_backward(w, v, c.n)
         [] c.s = "move_forward" -> W_move_forward(w, v, c.n)
         [] c.s = "move_forward_1d" -> W_move_forward_1d(w, v)
         [] c.s = "move_to_parent" -> W_move_to_parent(w, v)
         [] c.s = "move_to_child" -> W_move_to_child(w, v, c.st)
         [] c.s = "move_to_top" -> W_move_to_top(w, v)
         [] c.s = "move_to_bottom" -> W_move_to_bottom(w, v)
         [] c.s = "search" -> W_search(w, v, c.key)
         [] c.s = "remove_selected" -> W_remove_selected(w, v)
         [] c.s = "select_shown" -> W_select_shown(w, v, c.n)
         [] c.s = "rescan" -> mc_tree_cmd_rescan(w, v, c.st)
         [] c.s = "toggle" -> mc_tree_cmd_navigation_mode_toggle(w)
         [] c.s = "set_b" -> [w EXCEPT !.b = c.flag]
         [] c.s = "search_on" ->
              [w EXCEPT !.tree[v].searching = TRUE, !.tree[v].search_buffer = <<>>]
         [] c.s = "search_off" -> [w EXCEPT !.tree[v].searching = FALSE]
         [] OTHER -> w

\* the statements run one after another, each on the world the one before
\* it left
Exec(w, v, stmts) ==
  IF stmts = <<>> THEN w
  ELSE CHOOSE r \in {Exec(x, v, rest) : x \in {Do(w, v, Head(stmts))},
                                       rest \in {Tail(stmts)}} : TRUE

\* a raise that takes the NULL name for a registered one
mc_event_raise_any(ev) == ev \in treeview_group_names \cup {""}

\* mc_event_raise: is there a handler of the name in the group
mc_event_raise(ev) == ev \in treeview_group_names

\* the statements of tree_execute_cmd
tree_execute_cmd(command, st2, erased) ==
  <<[Stmt("set_b") EXCEPT !.flag = TRUE]>>
  \o (IF command # "CK_Search" THEN <<Stmt("search_off")>> ELSE <<>>)
  \o (IF command # "CK_Quit" THEN <<Stmt("show_tree")>> ELSE <<>>)
  \o (IF mc_event_raise(event_name(command))
      THEN <<[Call(event_name(command)) EXCEPT !.st = st2, !.flag = erased]>>
      ELSE <<>>)

(***************************************************************************)
(* The navigation operations as steps of one view.                         *)
(***************************************************************************)
Running(v) == ~ub /\ tree[v].alive

OpMoveForward(v) ==
  \E n \in 1..MaxSteps :
    /\ Running(v)
    /\ tree' = [tree EXCEPT ![v] = tree_move_forward(@, store, tree_navigation_flag, n)]
    /\ last' = Did("move_forward", v, n, tree[v], FALSE, FALSE)
    /\ UNCHANGED <<store, tree_navigation_flag, hooks, ub>>

OpMoveBackward(v) ==
  \E n \in 1..MaxSteps :
    /\ Running(v)
    /\ tree' = [tree EXCEPT ![v] = tree_move_backward(@, store, tree_navigation_flag, n)]
    /\ last' = Did("move_backward", v, n, tree[v], FALSE, FALSE)
    /\ UNCHANGED <<store, tree_navigation_flag, hooks, ub>>

OpMoveToParent(v) ==
  /\ Running(v)
  /\ tree' = [tree EXCEPT ![v] = tree_move_to_parent(@, store).t]
  /\ last' = Did("move_to_parent", v, 0, tree[v], tree_move_to_parent(tree[v], store).ret, FALSE)
  /\ UNCHANGED <<store, tree_navigation_flag, hooks, ub>>

\* bounded: the "rescan" event adds directories up to MaxStore entries only
OpMoveToChild(v, bounded) ==
  /\ Running(v)
  /\ tree[v].selected_ptr # NULL
  /\ IF HasChildNext(tree[v], store)
     THEN /\ tree' = [tree EXCEPT ![v] = tree_move_to_child(@, store, store)]
          /\ last' = Did("move_to_child", v, 0, tree[v], FALSE, FALSE)
          /\ UNCHANGED store
     ELSE \E st2 \in IF bounded THEN BoundedRescan(store, tree[v].selected_ptr)
                      ELSE RescanOutcomes(store, tree[v].selected_ptr) :
          /\ tree' = [tree EXCEPT ![v] = tree_move_to_child(@, store, st2)]
          /\ last' = Did("move_to_child", v, 0, tree[v], FALSE, TRUE)
          /\ store' = st2
  /\ UNCHANGED <<tree_navigation_flag, hooks, ub>>

OpMoveToTop(v) ==
  /\ Running(v)
  /\ tree' = [tree EXCEPT ![v] = tree_move_to_top(@, store)]
  /\ last' = Did("move_to_top", v, 0, tree[v], FALSE, FALSE)
  /\ UNCHANGED <<store, tree_navigation_flag, hooks, ub>>

OpMoveToBottom(v) ==
  /\ Running(v)
  /\ tree' = [tree EXCEPT ![v] = tree_move_to_bottom(@, store)]
  /\ last' = Did("move_to_bottom", v, 0, tree[v], FALSE, FALSE)
  /\ UNCHANGED <<store, tree_navigation_flag, hooks, ub>>

(***************************************************************************)
(* SpecNav: one view over a non-empty store, navigation operations only.   *)
(***************************************************************************)
InitNav ==
  /\ store \in InitStores
  /\ tree_navigation_flag \in BOOLEAN
  /\ \E home \in SetOf(store) \cup {NULL} :
       tree = [v \in Views |-> IF v = 1 THEN tree_new(1, store, home) ELSE NoView(v)]
  /\ hooks = <<1>>
  /\ ub = FALSE
  /\ last = NoOp

NextNav ==
  \/ OpMoveForward(1)
  \/ OpMoveBackward(1)
  \/ OpMoveToParent(1)
  \/ OpMoveToChild(1, FALSE)
  \/ OpMoveToTop(1)
  \/ OpMoveToBottom(1)

SpecNav == InitNav /\ [][NextNav]_vars



(***************************************************************************)
(* Spec: the views as the program drives them, through tree_callback,      *)
(* tree_event, the "chdir" event and the store's collaborators.            *)
(***************************************************************************)
\* the step leaves the world w2
Becomes(w2) ==
  \E r \in {w2} :
    /\ store' = r.store
    /\ tree_navigation_flag' = r.nav
    /\ tree' = r.tree
    /\ hooks' = r.hooks
    /\ ub' = r.ub

\* the view gets input: the dialog of view 2 is modal (dlg_run)
HasInput(v) == Running(v) /\ (v = 1 => ~tree[2].alive)

\* MSG_KEY with a key of tree_map, or MSG_ACTION: tree_execute_cmd
Command(v, C) ==
  \E command \in C, erased \in BOOLEAN :
    \E st2 \in IF tree[v].selected_ptr # NULL /\ InStore(store, tree[v].selected_ptr)
                  /\ command \in {"CK_Right", "CK_Reread"}
               THEN BoundedRescan(store, tree[v].selected_ptr) ELSE {store} :
      /\ HasInput(v)
      /\ erased => command = "CK_Delete"
      /\ \E r \in {Exec(World, v, tree_execute_cmd(command, st2, erased))} :
           /\ Becomes(r)
           /\ last' = [Ran(command, v, mc_event_raise(event_name(command)) /\ r.b)
                          EXCEPT !.sel = tree[v].selected_ptr]

\* tree_key starting a search whether or not there is a command prompt
tree_key_any_prompt(t, key, command_prompt) ==
  IF t.searching THEN tree_do_search(key) \o <<Stmt("show_tree")>>
  ELSE <<Call("search_begin")>> \o tree_do_search(key)

\* the statements of tree_key for a printable key or KEY_BACKSPACE that
\* tree_map does not hold
tree_key(t, key, command_prompt) ==
  IF t.searching THEN tree_do_search(key) \o <<Stmt("show_tree")>>
  ELSE IF ~command_prompt THEN <<Call("search_begin")>> \o tree_do_search(key)
  ELSE <<>>

\* MSG_KEY with a key of K; the step records in n whether the view was
\* searching
Key(v, K) ==
  \E key \in K, command_prompt \in BOOLEAN :
    /\ HasInput(v)
    /\ Becomes(Exec(World, v, tree_key(tree[v], key, command_prompt)))
    /\ last' = [Ran("key", v, tree[v].searching \/ ~command_prompt)
                   EXCEPT !.sel = tree[v].selected_ptr, !.key = key,
                          !.n = IF tree[v].searching THEN 1 ELSE 0]

\* the abort character that leaves the panel view searching
AbortKey_keeps_searching(v) ==
  /\ HasInput(v)
  /\ Becomes(Exec(World, v, IF tree[v].is_panel THEN <<Stmt("show_tree")>> ELSE <<>>))
  /\ last' = [Ran("abort", v, tree[v].is_panel)
                 EXCEPT !.n = IF tree[v].searching THEN 1 ELSE 0]

\* tree_key with an abort character; the step records in n whether the view
\* was searching
AbortKey(v) ==
  /\ HasInput(v)
  /\ Becomes(Exec(World, v, IF tree[v].is_panel
                            THEN <<Stmt("search_off"), Stmt("show_tree")>> ELSE <<>>))
  /\ last' = [Ran("abort", v, tree[v].is_panel)
                 EXCEPT !.n = IF tree[v].searching THEN 1 ELSE 0]

\* the statements of tree_event for a button release at local line y; double
\* is GPM_DOUBLE
tree_event(t, y, double) ==
  (IF ~t.active THEN <<Stmt("change_panel")>> ELSE <<>>)
  \o (IF y < 0 THEN <<Move("move_backward", tlines(t) - 1), Stmt("show_tree")>>
      ELSE IF y >= tlines(t) THEN <<Move("move_forward", tlines(t) - 1), Stmt("show_tree")>>
      ELSE IF double THEN <<Move("select_shown", y), Call("enter")>>
      ELSE <<>>)

Mouse(v) ==
  \E y \in (0 - 1)..tlines(tree[v]), double \in BOOLEAN :
    /\ HasInput(v)
    /\ tree[v].tree_shown # <<>>
    /\ Becomes(Exec(World, v, tree_event(tree[v], y, double)))
    /\ last' = [Ran("mouse", v, double)
                   EXCEPT !.sel = tree[v].selected_ptr, !.n = IF double THEN y ELSE 0]

\* MSG_DRAW
Draw(v) ==
  /\ Running(v)
  /\ Becomes(Exec(World, v, <<Stmt("show_tree")>>))
  /\ last' = Ran("draw", v, TRUE)

\* MSG_FOCUS
Focus(v) ==
  /\ Running(v)
  /\ ~tree[v].active
  /\ Becomes(Exec(World, v, <<Stmt("focus")>>))
  /\ last' = Ran("focus", v, TRUE)

\* MSG_UNFOCUS; the step records in n whether the view was searching
Unfocus(v) ==
  /\ Running(v)
  /\ tree[v].active
  /\ Becomes(Exec(World, v, <<Stmt("unfocus")>>))
  /\ last' = [Ran("unfocus", v, TRUE) EXCEPT !.n = IF tree[v].searching THEN 1 ELSE 0]

\* the "chdir" event raised for the view with a directory of the universe
Chdir(v) ==
  \E dir \in Entries :
    /\ Running(v)
    /\ Becomes([World EXCEPT !.tree[v] =
                  mc_tree_cmd_chdir(@, IF InStore(store, dir) THEN dir ELSE NULL)])
    /\ last' = [Ran("chdir", v, InStore(store, dir)) EXCEPT !.n = dir]

\* the function a hook of the store was registered with: tree_new registers
\* remove_callback for every view, the view being the hook's data
hook_callback(h) == "remove_callback"

\* tree_store_remove_entry_remove_hook is handed the callback and nothing of
\* the view: the hooks registered with that callback leave the list
tree_store_remove_entry_remove_hook(hk, callback) ==
  SelectSeq(hk, LAMBDA h : hook_callback(h) # callback)

tree_destroy(w, v) ==
  [w EXCEPT !.hooks = tree_store_remove_entry_remove_hook(w.hooks, "remove_callback"),
            !.tree[v] = NoView(v)]

\* MSG_DESTROY
Destroy(v) ==
  /\ Running(v)
  /\ Becomes(tree_destroy(World, v))
  /\ last' = Ran("destroy", v, TRUE)

\* a collaborator of the store removes a directory: tree_store_remove_entry
StoreRemove ==
  \E e \in SetOf(store) :
    /\ ~ub
    /\ Becomes(tree_store_remove_entry(World, e))
    /\ last' = [Ran("remove", 0, TRUE) EXCEPT !.sel = e]

\* tree_new: the panel view 1, or the view 2 of mc_tree_cmd_show_box
New(v) ==
  \E home \in SetOf(store) \cup {NULL} :
    /\ ~ub
    /\ ~tree[v].alive
    /\ Becomes([World EXCEPT !.tree[v] = tree_new(v, store, home),
                             !.hooks = Append(hooks, v)])
    /\ last' = Ran("new", v, TRUE)

Init ==
  /\ store = ScenarioStore
  /\ tree_navigation_flag = FALSE
  /\ \E home \in SetOf(store) \cup {NULL} :
       tree = [v \in Views |-> IF v = 1 THEN tree_new(1, store, home) ELSE NoView(v)]
  /\ hooks = <<1>>
  /\ ub = FALSE
  /\ last = NoOp

Next ==
  \E v \in {1} :
    \/ Command(v, Commands)
    \/ Key(v, Keys \cup {KEY_BACKSPACE})
    \/ AbortKey(v)
    \/ Mouse(v)
    \/ Draw(v)
    \/ Focus(v)
    \/ Unfocus(v)
    \/ Chdir(v)
    \/ Destroy(v)
    \/ New(v)

Spec == Init /\ [][Next]_vars

(***************************************************************************)
(* SpecShared: the panel view and the dialog view over one store, with the *)
(* commands, mouse events and removals that make them meet.                *)
(***************************************************************************)
SharedCommands == {"CK_Forget", "CK_Down", "CK_ToggleNavigation"}

InitShared ==
  /\ store = ScenarioStore
  /\ tree_navigation_flag = FALSE
  /\ tree = [v \in Views |-> IF v = 1 THEN tree_new(1, store, 3) ELSE NoView(v)]
  /\ hooks = <<1>>
  /\ ub = FALSE
  /\ last = NoOp

NextShared ==
  \/ \E v \in Views : Command(v, SharedCommands)
  \/ \E v \in Views : Mouse(v)
  \/ \E v \in Views : Draw(v)
  \/ \E v \in Views : Focus(v)
  \/ StoreRemove
  \/ New(2)
  \/ Destroy(2)

SpecShared == InitShared /\ [][NextShared]_vars

(***************************************************************************)
(* SpecOps: one view over a store nothing is removed from, with every      *)
(* operation that sets the selection or topdiff.                           *)
(***************************************************************************)
InitOps ==
  /\ store = <<1, 2, 3, 5, 6, 7, 8>>
  /\ tree_navigation_flag \in BOOLEAN
  /\ \E home \in {NULL, 3} :
       tree = [v \in Views |-> IF v = 1 THEN tree_new(1, store, home) ELSE NoView(v)]
  /\ hooks = <<1>>
  /\ ub = FALSE
  /\ last = NoOp

NextOps ==
  \/ OpMoveForward(1)
  \/ OpMoveBackward(1)
  \/ OpMoveToParent(1)
  \/ OpMoveToChild(1, TRUE)
  \/ OpMoveToTop(1)
  \/ OpMoveToBottom(1)
  \/ Key(1, {"a", "z"})
  \/ Mouse(1)
  \/ Chdir(1)
  \/ Draw(1)

SpecOps == InitOps /\ [][NextOps]_vars

(***************************************************************************)
(* SpecSearch: one view, the panel or the dialog view, over a fixed store,  *)
(* with the keys of a search.                                              *)
(***************************************************************************)
SearchCommands == {"CK_Search", "CK_Down"}

InitSearch ==
  /\ store \in {FullStore, ScenarioStore}
  /\ tree_navigation_flag \in BOOLEAN
  /\ \E home \in SetOf(store), p \in Views :
       /\ tree = [v \in Views |-> IF v = p THEN tree_new(p, store, home) ELSE NoView(v)]
       /\ hooks = <<p>>
  /\ ub = FALSE
  /\ last = NoOp

NextSearch ==
  \/ \E v \in Views : Key(v, Keys \cup {KEY_BACKSPACE})
  \/ \E v \in Views : AbortKey(v)
  \/ \E v \in Views : Command(v, SearchCommands)

SpecSearch == InitSearch /\ [][NextSearch]_vars

(***************************************************************************)
(* SpecFocus: tree_check_focus applied to any topdiff of a view with at    *)
(* least 8 lines.                                                          *)
(***************************************************************************)
OpCheckFocus(v) ==
  /\ Running(v)
  /\ tree' = [tree EXCEPT ![v] = tree_check_focus(@)]
  /\ last' = [Did("check_focus", v, 0, tree[v], FALSE, FALSE) EXCEPT !.top = tree[v].topdiff]
  /\ UNCHANGED <<store, tree_navigation_flag, hooks, ub>>

InitFocus ==
  /\ store = ScenarioStore
  /\ tree_navigation_flag = FALSE
  /\ \E v \in Views, l \in 8..MaxLines, d \in (0 - MaxTop)..MaxTop, home \in SetOf(store) :
       /\ tlines([tree_new(v, store, home) EXCEPT !.lines = l]) >= 8
       /\ tree = [w \in Views |->
                    IF w = v
                    THEN [tree_new(v, store, home) EXCEPT !.lines = l, !.topdiff = d]
                    ELSE NoView(w)]
  /\ hooks = <<>>
  /\ ub = FALSE
  /\ last = NoOp

NextFocus == \E v \in Views : OpCheckFocus(v)

SpecFocus == InitFocus /\ [][NextFocus]_vars

(***************************************************************************)
(* SpecRender: show_tree applied to any selection, or none, and any        *)
(* topdiff of a view over a store that has entries.                        *)
(***************************************************************************)
OpShowTree(v) ==
  /\ Running(v)
  /\ Becomes(Exec(World, v, <<Stmt("show_tree")>>))
  /\ last' = [Ran("show_tree", v, TRUE)
                 EXCEPT !.sel = tree[v].selected_ptr, !.top = tree[v].topdiff]

InitRender ==
  /\ store \in InitStores
  /\ tree_navigation_flag \in BOOLEAN
  /\ \E sel \in SetOf(store) \cup {NULL}, d \in 0..MaxTop :
       tree = [v \in Views |->
                 IF v = 1
                 THEN [tree_new(1, store, NULL) EXCEPT !.selected_ptr = sel, !.topdiff = d]
                 ELSE NoView(v)]
  /\ hooks = <<1>>
  /\ ub = FALSE
  /\ last = NoOp

NextRender == OpShowTree(1)

SpecRender == InitRender /\ [][NextRender]_vars

(***************************************************************************)
(* SpecDeep: the panel view over a store whose directories lie eight deep, *)
(* with the navigation operations, the mouse and MSG_DRAW.                 *)
(***************************************************************************)
InitDeep ==
  /\ store = DeepStore
  /\ tree_navigation_flag \in BOOLEAN
  /\ \E home \in SetOf(store) :
       tree = [v \in Views |-> IF v = 1 THEN tree_new(1, store, home) ELSE NoView(v)]
  /\ hooks = <<1>>
  /\ ub = FALSE
  /\ last = NoOp

NextDeep ==
  \/ OpMoveForward(1)
  \/ OpMoveBackward(1)
  \/ OpMoveToParent(1)
  \/ OpMoveToChild(1, FALSE)
  \/ OpMoveToTop(1)
  \/ OpMoveToBottom(1)
  \/ Key(1, {"x"})
  \/ Mouse(1)
  \/ Draw(1)

SpecDeep == InitDeep /\ [][NextDeep]_vars

(***************************************************************************)
(* SpecHook: the panel view and the view of mc_tree_cmd_show_box over one  *)
(* store, with searches in the views, removals from the store, and the     *)
(* second view coming and going.                                           *)
(***************************************************************************)
InitHook ==
  /\ store = ScenarioStore
  /\ tree_navigation_flag = FALSE
  /\ \E home \in SetOf(store) :
       tree = [v \in Views |-> IF v = 1 THEN tree_new(1, store, home) ELSE NoView(v)]
  /\ hooks = <<1>>
  /\ ub = FALSE
  /\ last = NoOp

NextHook ==
  \/ \E v \in Views : Key(v, {"a", "x"})
  \/ \E v \in Views : Command(v, SearchCommands)
  \/ StoreRemove
  \/ New(2)
  \/ Destroy(2)

SpecHook == InitHook /\ [][NextHook]_vars

(***************************************************************************)
(* SpecRouter: the panel view with every command of tree_execute_cmd, and  *)
(* with the focus coming and going.                                        *)
(***************************************************************************)
InitRouter ==
  /\ store = ScenarioStore
  /\ tree_navigation_flag \in BOOLEAN
  /\ \E home \in {NULL, 3} :
       tree = [v \in Views |-> IF v = 1 THEN tree_new(1, store, home) ELSE NoView(v)]
  /\ hooks = <<1>>
  /\ ub = FALSE
  /\ last = NoOp

NextRouter ==
  \/ Command(1, Commands)
  \/ Draw(1)
  \/ Focus(1)
  \/ Unfocus(1)

SpecRouter == InitRouter /\ [][NextRouter]_vars

(***************************************************************************)
(* Claims on the navigation operations.                                    *)
(***************************************************************************)
Sel(v) == tree[v].selected_ptr

\* records left after entry e in the store
After(st, e) == Len(st) - Pos(st, e)

\* the path of the directory holding e
ParentPath(e) == SubSeq(name(e), 1, LastSep(name(e), Len(name(e))) - 1)

SameParent(e, d) == sublevel(e) = sublevel(d) /\ ParentPath(e) = ParentPath(d)

\* the next entry after e that lies in the same directory as e, or NULL
NextSibling(st, e) ==
  LET S == {i \in (Pos(st, e) + 1)..Len(st) : SameParent(st[i], e)}
  IN IF S = {} THEN NULL ELSE st[CHOOSE i \in S : \A k \in S : i <= k]

\* C1: over a non-empty well-formed store, after any sequence of move,
\* move_to_parent, move_to_child, move_to_top and move_to_bottom calls in
\* either navigation mode, the selection is not null and is an entry of the
\* store.
C1_SelectedInStore ==
  /\ Len(store) > 0
  /\ WellFormed(store)
  /\ Sel(1) # NULL
  /\ InStore(store, Sel(1))

C1_Witness ==
  /\ last.op = "move_to_parent"
  /\ sublevel(last.sel) = 0
  /\ Sel(1) = tree_first(store)
  /\ Len(store) > 1

\* C5: for every topdiff and every view of at least 8 lines, the topdiff that
\* tree_check_focus leaves lies in [3, tlines - 4] and a second application
\* does not change it.
C5_FocusIdempotent ==
  \A v \in Views :
    tree[v].alive =>
      LET once == tree_check_focus(tree[v])
          twice == tree_check_focus(once)
      IN /\ twice.topdiff = once.topdiff
         /\ once.topdiff >= 3
         /\ once.topdiff <= tlines(tree[v]) - 4
         /\ (last.op = "check_focus" /\ last.v = v => once = tree[v])

C5_Witness ==
  /\ last.op = "check_focus"
  /\ last.top > tlines(tree[last.v]) - 4
  /\ tree[last.v].topdiff = tlines(tree[last.v]) - 4

\* C6: in the 1d (flat) mode, after move forward by n from an entry with at
\* least n entries after it, move backward by n selects that entry again.
C6_FlatRoundTrip ==
  (/\ last.op = "move_forward"
   /\ ~tree_navigation_flag
   /\ last.n <= After(store, last.sel))
  => tree_move_backward(tree[1], store, tree_navigation_flag, last.n).selected_ptr
       = last.sel

C6_Witness ==
  /\ last.op = "move_forward"
  /\ ~tree_navigation_flag
  /\ last.n = MaxSteps
  /\ Pos(store, Sel(1)) = Pos(store, last.sel) + MaxSteps
  /\ tree_move_backward(tree[1], store, FALSE, last.n).selected_ptr = last.sel

\* C7: in the 2d (hierarchical) mode, after a move_to_child that changed the
\* selection without a rescan, move_to_parent selects the former selection
\* and returns TRUE.
C7_ChildThenParent ==
  (/\ last.op = "move_to_child"
   /\ tree_navigation_flag
   /\ ~last.rescan
   /\ Sel(1) # last.sel)
  => /\ tree_move_to_parent(tree[1], store).t.selected_ptr = last.sel
     /\ tree_move_to_parent(tree[1], store).ret

C7_Witness ==
  /\ last.op = "move_to_child"
  /\ tree_navigation_flag
  /\ ~last.rescan
  /\ Sel(1) = next(store, last.sel)
  /\ sublevel(Sel(1)) = sublevel(last.sel) + 1

\* C8: move forward by 1 selects, in the 2d mode, the next entry of the same
\* directory (passing every deeper entry between them) and, in the 1d mode,
\* the next entry of the list; over the store [/, /a, /a/x, /b],
\* move_to_parent from /a/x selects /a and move forward by 1 from /a selects
\* /b in the 2d mode and /a/x in the 1d mode.
C8_Adjacency ==
  /\ (last.op = "move_forward" /\ last.n = 1) =>
       IF tree_navigation_flag
       THEN /\ Sel(1) = IF NextSibling(store, last.sel) # NULL
                        THEN NextSibling(store, last.sel) ELSE last.sel
            /\ \A i \in (Pos(store, last.sel) + 1)..(Pos(store, Sel(1)) - 1) :
                 sublevel(store[i]) > sublevel(last.sel)
       ELSE Sel(1) = IF next(store, last.sel) # NULL
                     THEN next(store, last.sel) ELSE last.sel
  /\ store = ScenarioStore =>
       /\ (last.op = "move_to_parent" /\ last.sel = 3) => Sel(1) = 2
       /\ (last.op = "move_forward" /\ last.n = 1 /\ last.sel = 2) =>
            Sel(1) = IF tree_navigation_flag THEN 7 ELSE 3

C8_Witness ==
  /\ store = ScenarioStore
  /\ tree_navigation_flag
  /\ last.op = "move_forward"
  /\ last.n = 1
  /\ last.sel = 2
  /\ Sel(1) = 7


(***************************************************************************)
(* Claims on the removal hook and on the views sharing a store.            *)
(***************************************************************************)
\* the entries the step takes out of the store
Removed == SetOf(store) \ SetOf(store')

\* the entry of the store right after the removed ones, or NULL
AfterRemoved ==
  LET p == CHOOSE i \in 1..Len(store) :
             store[i] \in Removed /\ \A k \in (i + 1)..Len(store) : store[k] \notin Removed
  IN IF p < Len(store) THEN store[p + 1] ELSE NULL

\* the entry of the store right before the removed ones, or NULL
BeforeRemoved ==
  LET p == CHOOSE i \in 1..Len(store) :
             store[i] \in Removed /\ \A k \in 1..(i - 1) : store[k] \notin Removed
  IN IF p > 1 THEN store[p - 1] ELSE NULL

\* C2: when a step removes the entry a hooked view has selected, the view
\* selects what was the next of the removed entries or, if there is none, what
\* was their prev; when one entry is removed these are its own next and prev;
\* the selection becomes NULL only when the store becomes empty.
C2_RemovalHook ==
  [][\A v \in Views :
       (/\ tree[v].alive /\ tree'[v].alive
        /\ Hooked(hooks, v)
        /\ ~ub'
        /\ Sel(v) \in Removed)
       => /\ tree'[v].selected_ptr =
               IF AfterRemoved # NULL THEN AfterRemoved ELSE BeforeRemoved
          /\ (Removed = {Sel(v)} =>
                tree'[v].selected_ptr =
                  IF next(store, Sel(v)) # NULL THEN next(store, Sel(v))
                  ELSE prev(store, Sel(v)))
          /\ (tree'[v].selected_ptr = NULL <=> store' = <<>>)]_vars

C2_Witness ==
  /\ ~ub
  /\ last.op = "CK_Forget"
  /\ last.sel # NULL
  /\ ~InStore(store, last.sel)
  /\ Len(store) > 0
  /\ Sel(last.v) = tree_last(store)
  /\ Sel(last.v) < last.sel

\* C3: with the views sharing a store, after any removal no live view's
\* selection refers to an entry that is no longer in the store.
C3_NoDangling ==
  \A v \in Views : tree[v].alive => ~Dangling(tree[v], store)

\* C36: a removal from the store, by a collaborator of the store or by the
\* CK_Forget of another view, that does not take out the entry a view has
\* selected leaves the view as it was: the same selected_ptr, topdiff,
\* searching and search_buffer.
C36_OtherEntryRemoved ==
  [][\A v \in Views :
       (/\ tree[v].alive
        /\ ~ub /\ ~ub'
        /\ Removed # {}
        /\ Sel(v) \notin Removed
        /\ \/ last'.op = "remove"
           \/ last'.op = "CK_Forget" /\ last'.v # v)
       => /\ tree'[v].selected_ptr = Sel(v)
          /\ tree'[v].topdiff = tree[v].topdiff
          /\ tree'[v].searching = tree[v].searching
          /\ tree'[v].search_buffer = tree[v].search_buffer
          /\ tree'[v] = tree[v]]_vars

C36_Witness ==
  /\ ~ub
  /\ last.op = "remove"
  /\ last.sel = 2
  /\ store = <<1, 7>>
  /\ tree[1].searching
  /\ tree[1].search_buffer # <<>>
  /\ Sel(1) = 7
  /\ tree[2].alive
  /\ Sel(2) = 1
  /\ Hooked(hooks, 1) /\ Hooked(hooks, 2)

\* C37: with the views sharing the store, MSG_DESTROY of a view takes only
\* that view's hook off the store and sets only that view's selection to
\* NULL: the other views stay as they were and stay hooked, and a view that
\* is there still has its selection reseated, to the entry after the removed
\* ones or else the entry before them, when a later step removes the entry it
\* has selected.
C37_DestroyOnlyOwnHook ==
  [][/\ \A v \in Views :
          (~ub /\ last'.op = "destroy" /\ last'.v = v)
          => /\ tree'[v].selected_ptr = NULL
             /\ ~Hooked(hooks', v)
             /\ \A u \in Views \ {v} :
                  /\ tree'[u] = tree[u]
                  /\ Hooked(hooks', u) <=> Hooked(hooks, u)
      /\ \A u \in Views :
          (/\ ~ub /\ ~ub'
           /\ tree[u].alive /\ tree'[u].alive
           /\ last'.op = "remove"
           /\ Sel(u) \in Removed)
          => tree'[u].selected_ptr =
               IF AfterRemoved # NULL THEN AfterRemoved ELSE BeforeRemoved]_vars

(***************************************************************************)
(* Claims on topdiff.                                                      *)
(***************************************************************************)
Max(a, b) == IF a >= b THEN a ELSE b

InRange(t) == 3 <= t.topdiff /\ t.topdiff <= tlines(t) - 4

\* the operation the state is left by ends with tree_check_focus
FocusChecked(v) ==
  /\ last.v = v
  /\ \/ last.op \in {"move_forward", "move_backward", "move_to_parent"}
     \/ last.op = "move_to_child" /\ Sel(v) # last.sel
     \/ last.op = "chdir" /\ last.ret

C34_StaysAmongSiblings ==
  [][\A v \in Views :
       (/\ tree_navigation_flag
        /\ last'.op \in {"move_forward", "move_backward"} /\ last'.v = v
        /\ Sel(v) # NULL)
       => LET forward == last'.op = "move_forward"
              there == {i \in 1..Len(store) :
                          /\ IF forward THEN i > Pos(store, Sel(v))
                             ELSE i < Pos(store, Sel(v))
                          /\ SameParent(store[i], Sel(v))}
          IN /\ sublevel(tree'[v].selected_ptr) = sublevel(Sel(v))
             /\ SameParent(tree'[v].selected_ptr, Sel(v))
             /\ there = {} => tree'[v] = tree_check_focus(tree[v])
             /\ there # {} => tree'[v].selected_ptr # Sel(v)]_vars

C34_Witness ==
  /\ store = FullStore
  /\ tree_navigation_flag
  /\ last.op = "move_backward"
  /\ last.n = 2
  /\ last.sel = 10
  /\ Sel(1) = 5

(***************************************************************************)
(* Claims on the incremental search.                                       *)
(***************************************************************************)
\* the search buffer a key is added to
PreBuffer(v) == IF tree[v].searching THEN tree[v].search_buffer ELSE <<>>

\* the entry's subname starts with the text
StartsWith(e, text) ==
  /\ Len(text) <= Len(subname(e))
  /\ \A i \in 1..Len(text) : subname(e)[i] = text[i]

\* the store from entry e on, wrapped around to the entry before e
ScanFrom(st, e) ==
  [i \in 1..Len(st) |-> st[((Pos(st, e) + i - 2) % Len(st)) + 1]]

\* the first entry of the order whose subname starts with the text, or NULL
FirstMatch(order, text) ==
  LET S == {i \in 1..Len(order) : StartsWith(order[i], text)}
  IN IF S = {} THEN NULL ELSE order[CHOOSE i \in S : \A k \in S : i <= k]

\* the step is tree_key taking a printable key into the search buffer
TypedKey(v) ==
  /\ ~ub /\ ~ub'
  /\ last'.op = "key" /\ last'.v = v /\ last'.ret
  /\ last'.key \in Keys
  /\ Sel(v) # NULL

\* C9: when a typed key makes the buffer the prefix of no subname in the
\* store, the selection is unchanged and the buffer is left as it was before
\* the key.
C9_NoMatchRollsBack ==
  [][\A v \in Views :
       (/\ TypedKey(v)
        /\ \A e \in SetOf(store) : ~StartsWith(e, Append(PreBuffer(v), last'.key)))
       => /\ tree'[v].selected_ptr = Sel(v)
          /\ tree'[v].search_buffer = PreBuffer(v)
          /\ tree'[v].searching]_vars

C9_Witness ==
  /\ ~ub
  /\ last.op = "key"
  /\ last.key = "z"
  /\ tree[1].searching
  /\ tree[1].search_buffer = <<"a">>
  /\ Sel(1) = last.sel

\* C10 as stated: the scan of a typed key takes the first entry whose subname
\* starts with the buffer in the order next of the selection, ..., last,
\* first, ..., prev of the selection, and the selection itself after them.
C10_SelectionLast ==
  [][\A v \in Views :
       TypedKey(v) =>
         LET text == Append(PreBuffer(v), last'.key)
             order == Tail(ScanFrom(store, Sel(v))) \o <<Sel(v)>>
         IN FirstMatch(order, text) # NULL =>
              tree'[v].selected_ptr = FirstMatch(order, text)]_vars

\* C10 amended: the scan of a typed key takes the first entry whose subname
\* starts with the buffer in the order selection, next of the selection, ...,
\* last, first, ..., prev of the selection: the selection is tested first,
\* and the scan wraps once.
C10_SelectionFirst ==
  [][\A v \in Views :
       TypedKey(v) =>
         LET text == Append(PreBuffer(v), last'.key)
             order == ScanFrom(store, Sel(v))
         IN tree'[v].selected_ptr =
              IF FirstMatch(order, text) # NULL THEN FirstMatch(order, text)
              ELSE Sel(v)]_vars

C10_Witness ==
  /\ ~ub
  /\ store = FullStore
  /\ last.op = "key"
  /\ last.key = "a"
  /\ last.sel = 2
  /\ Sel(1) = 2
  /\ tree[1].search_buffer = <<"a">>

(***************************************************************************)
(* Claims on the command router and the event group.                       *)
(***************************************************************************)
\* the state is left by tree_execute_cmd running the command for a live view
Routed(command) ==
  /\ ~ub
  /\ last.op = command
  /\ last.v \in Views
  /\ tree[last.v].alive

\* C11: after every routed command other than CK_Quit the rows of tree_shown
\* and topdiff are those that show_tree gives, from some topdiff, for the
\* store, the selection and the navigation mode the handler left: a render
\* ran after the handler.
C11_RenderAfterHandler ==
  \A command \in Commands \ {"CK_Quit"} :
    Routed(command) =>
      \E d \in 0..MaxTop :
        LET shown == show_tree([tree[last.v] EXCEPT !.topdiff = d], store,
                               tree_navigation_flag)
        IN /\ tree[last.v].tree_shown = shown.tree_shown
           /\ tree[last.v].topdiff = shown.topdiff

\* C12: a command whose event name has no handler in the group (CK_Quit,
\* which has the NULL name) runs no handler: the router reports it as not
\* handled, nothing is undefined, and the step changes nothing but the
\* searching flag that tree_execute_cmd clears before the raise.
C12_NoHandler ==
  [][(/\ ~ub
      /\ last'.op \in Commands
      /\ event_name(last'.op) \notin treeview_group_names)
     => /\ last'.ret = FALSE
        /\ ~ub'
        /\ store' = store
        /\ tree_navigation_flag' = tree_navigation_flag
        /\ hooks' = hooks
        /\ tree' = [tree EXCEPT ![last'.v].searching = FALSE]]_vars

C12_Witness ==
  /\ Routed("CK_Quit")
  /\ last.ret = FALSE
  /\ tree[1].tree_shown # <<>>
  /\ ~tree[1].searching

\* C13: whenever the command's event has a handler, the router's answer is
\* the boolean of the result slot: TRUE as tree_execute_cmd set it, unless
\* the handler stored another (only "goto_left" and "goto_right" do); it is
\* TRUE also when the handler's collaborator failed (nothing erased, nothing
\* rescanned).
C13_HandledIsResultSlot ==
  \A command \in Commands :
    (Routed(command) /\ event_name(command) \in treeview_group_names) =>
      last.ret = CASE command = "CK_Left" -> Sel(last.v) # last.sel
                   [] command = "CK_Right" -> tree_navigation_flag
                   [] OTHER -> TRUE

C13_Witness ==
  /\ Routed("CK_Delete")
  /\ last.ret
  /\ last.sel # NULL
  /\ InStore(store, last.sel)
  /\ Sel(1) = last.sel

\* C14: the "goto_left" and "goto_right" commands put FALSE into the result
\* slot exactly when they leave the selection unchanged.
C14_NoopIsFalse ==
  \A command \in {"CK_Left", "CK_Right"} :
    Routed(command) => (last.ret = FALSE <=> Sel(last.v) = last.sel)

(***************************************************************************)
(* Claims on the "chdir" event and on the operations' failures.            *)
(***************************************************************************)
\* C15: a "chdir" event for a directory the store does not hold leaves the
\* view as it was, selection and topdiff included; for a directory the store
\* holds, the selection becomes that entry and tree_check_focus is applied
\* to topdiff.
C15_ChdirLookup ==
  [][\A v \in Views :
       (~ub /\ last'.op = "chdir" /\ last'.v = v) =>
         /\ ~ub'
         /\ last'.ret = InStore(store, last'.n)
         /\ tree'[v] = IF InStore(store, last'.n)
                       THEN tree_check_focus([tree[v] EXCEPT !.selected_ptr = last'.n])
                       ELSE tree[v]]_vars

C15_Witness ==
  /\ last.op = "chdir"
  /\ ~last.ret
  /\ ~InStore(store, last.n)
  /\ Sel(1) # NULL
  /\ Sel(1) # tree_first(store)
  /\ ~InRange(tree[1])

\* C16: when tree_move_to_child finds no child after the selection, raises
\* "rescan" and still finds none (the rescan failed or found nothing), the
\* view is left as it was, selection and topdiff included, and nothing is
\* undefined.
C16_FruitlessRescan ==
  [][(/\ ~ub
      /\ last'.op = "move_to_child"
      /\ last'.rescan
      /\ ~HasChildNext(tree[last'.v], store'))
     => /\ ~ub'
        /\ tree'[last'.v] = tree[last'.v]]_vars

C16_Witness ==
  /\ last.op = "move_to_child"
  /\ last.rescan
  /\ Sel(1) = last.sel
  /\ \E c \in Entries : IsChild(c, Sel(1)) /\ ~InStore(store, c)
  /\ next(store, Sel(1)) # NULL

(***************************************************************************)
(* Claims on the navigation mode shared by the views.                      *)
(***************************************************************************)
\* C17: there is one tree_navigation_flag for all views: only the toggle
\* command changes it, through whichever view it runs it negates it (so two
\* toggles restore it), and the move and the render of a CK_Down in any view
\* are those of the flag's value at that time, whichever view set it.
C17_SharedMode ==
  [][(~ub /\ ~ub') =>
       /\ tree_navigation_flag' # tree_navigation_flag =>
            last'.op = "CK_ToggleNavigation"
       /\ last'.op = "CK_ToggleNavigation" =>
            tree_navigation_flag' = ~tree_navigation_flag
       /\ \A v \in Views :
            (last'.op = "CK_Down" /\ last'.v = v) =>
              tree'[v] =
                show_tree(tree_move_forward(show_tree([tree[v] EXCEPT !.searching = FALSE],
                                                      store, tree_navigation_flag),
                                            store, tree_navigation_flag, 1),
                          store, tree_navigation_flag)]_vars

C17_Witness ==
  /\ ~ub
  /\ tree_navigation_flag
  /\ last.op = "CK_Down"
  /\ last.v = 2
  /\ last.sel = 2
  /\ Sel(2) = 7
  /\ tree[1].alive
  /\ InStore(store, 3)

(***************************************************************************)
(* Claims on move and move_to_parent.                                      *)
(***************************************************************************)
\* the places in the store of the entries adjacent to e in the direction: in
\* the 1d mode every entry on that side, in the 2d mode those of e's
\* directory
AdjacentPlaces(st, e, nav, forward) ==
  {i \in 1..Len(st) :
     /\ IF forward THEN i > Pos(st, e) ELSE i < Pos(st, e)
     /\ nav => SameParent(st[i], e)}

\* C18: tree_move_forward and tree_move_backward by n move the selection to
\* the k-th adjacent entry in the direction, k being the smaller of n and the
\* number of adjacent entries there, add k to topdiff (forward) or take k
\* from it (backward), and then apply tree_check_focus.
C18_MoveBySteps ==
  [][\A v \in Views :
       (last'.op \in {"move_forward", "move_backward"} /\ last'.v = v) =>
         LET forward == last'.op = "move_forward"
             S == AdjacentPlaces(store, Sel(v), tree_navigation_flag, forward)
             k == IF last'.n <= Cardinality(S) THEN last'.n ELSE Cardinality(S)
             target ==
               IF k = 0 THEN Sel(v)
               ELSE store[CHOOSE i \in S :
                            Cardinality({j \in S : IF forward THEN j <= i ELSE j >= i}) = k]
         IN tree'[v] =
              tree_check_focus([tree[v] EXCEPT
                                  !.selected_ptr = target,
                                  !.topdiff = IF forward THEN @ + k ELSE @ - k])]_vars

C18_Witness ==
  /\ store = FullStore
  /\ tree_navigation_flag
  /\ last.op = "move_forward"
  /\ last.n = MaxSteps
  /\ last.sel = 5
  /\ Sel(1) = 10

\* C19: tree_move_to_parent selects the nearest entry before the selection
\* whose sublevel is less than the selection's, or the first entry of the
\* store when there is none, and returns TRUE exactly when the selection it
\* leaves is not the one it found.
C19_ParentSelected ==
  [][\A v \in Views :
       (last'.op = "move_to_parent" /\ last'.v = v) =>
         LET P == {i \in 1..(Pos(store, Sel(v)) - 1) :
                     sublevel(store[i]) < sublevel(Sel(v))}
             target == IF P = {} THEN tree_first(store)
                       ELSE store[CHOOSE i \in P : \A j \in P : j <= i]
         IN /\ tree'[v].selected_ptr = target
            /\ last'.ret = (target # Sel(v))]_vars

C19_Witness ==
  /\ last.op = "move_to_parent"
  /\ last.ret
  /\ sublevel(Sel(1)) = sublevel(last.sel) - 1
  /\ Pos(store, Sel(1)) < Pos(store, last.sel) - 1
  /\ sublevel(prev(store, last.sel)) > sublevel(last.sel)

\* C20: before tree_check_focus is applied, tree_move_to_parent has taken
\* from topdiff one for every prev link between the old selection and the
\* entry it selects: as many as their places in the store differ (1 when the
\* parent is the entry right before the selection).
C20_ParentOffset ==
  [][\A v \in Views :
       (last'.op = "move_to_parent" /\ last'.v = v /\ Sel(v) # NULL) =>
         tree[v].topdiff
           - ParentLoop(store, Sel(v), prev(store, Sel(v)), tree[v].topdiff).topdiff
         = Pos(store, Sel(v)) - Pos(store, tree'[v].selected_ptr)]_vars

(***************************************************************************)
(* Claims on move_to_child, move_to_top and move_to_bottom.                *)
(***************************************************************************)
\* C21: tree_move_to_child selects the entry right after the selection, adds
\* one to topdiff and applies tree_check_focus, exactly when that entry's
\* sublevel is one more than the selection's; otherwise it raises "rescan"
\* once and makes the same test once on the store the rescan left, leaving
\* the view as it was when the test fails again.
C21_ChildOrOneRescan ==
  [][\A v \in Views :
       (last'.op = "move_to_child" /\ last'.v = v) =>
         LET e == Sel(v)
             child(st) == /\ next(st, e) # NULL
                          /\ sublevel(next(st, e)) = sublevel(e) + 1
             selected(st) == tree_check_focus([tree[v] EXCEPT
                                                 !.selected_ptr = next(st, e),
                                                 !.topdiff = @ + 1])
         IN /\ last'.rescan = ~child(store)
            /\ child(store) => (store' = store /\ tree'[v] = selected(store))
            /\ ~child(store) =>
                 tree'[v] = IF child(store') THEN selected(store') ELSE tree[v]]_vars

C21_Witness ==
  /\ last.op = "move_to_child"
  /\ last.rescan
  /\ Sel(1) = next(store, last.sel)
  /\ sublevel(Sel(1)) = sublevel(last.sel) + 1
  /\ tree[1].topdiff = tlines(tree[1]) - 4

\* C22: from any selection and in either navigation mode, tree_move_to_top
\* leaves the first entry of the store selected with topdiff 0, and
\* tree_move_to_bottom leaves the last entry selected with topdiff
\* tlines - 4.
C22_TopAndBottom ==
  \A v \in Views :
    /\ (last.op = "move_to_top" /\ last.v = v) =>
         (Sel(v) = tree_first(store) /\ tree[v].topdiff = 0)
    /\ (last.op = "move_to_bottom" /\ last.v = v) =>
         (Sel(v) = tree_last(store) /\ tree[v].topdiff = tlines(tree[v]) - 4)

C22_Witness ==
  /\ store = FullStore
  /\ tree_navigation_flag
  /\ last.op = "move_to_bottom"
  /\ last.sel = 3
  /\ Sel(1) = 10
  /\ tree[1].topdiff = tlines(tree[1]) - 4

(***************************************************************************)
(* Claims on the search: find next, abort, the buffer and the keys.        *)
(***************************************************************************)
\* C23: a CK_Search command for a view that is searching selects the first
\* entry whose subname starts with the search buffer in the order next of
\* the selection, ..., last, first, ..., the selection itself (the step to
\* the next entry is taken in the 1d mode whatever the mode is); the buffer
\* and tree_navigation_flag are left as they were and the view stays
\* searching.
C23_FindNext ==
  [][\A v \in Views :
       (/\ ~ub /\ ~ub'
        /\ last'.op = "CK_Search" /\ last'.v = v
        /\ tree[v].searching
        /\ Sel(v) # NULL)
       => /\ tree'[v].selected_ptr =
               FirstMatch(Tail(ScanFrom(store, Sel(v))) \o <<Sel(v)>>,
                          tree[v].search_buffer)
          /\ tree'[v].search_buffer = tree[v].search_buffer
          /\ tree'[v].searching
          /\ tree_navigation_flag' = tree_navigation_flag]_vars

C23_Witness ==
  /\ ~ub
  /\ tree_navigation_flag
  /\ last.op = "CK_Search"
  /\ last.sel = 4
  /\ Sel(1) = 6
  /\ tree[1].searching
  /\ tree[1].search_buffer = <<"x">>

\* C24: an abort character for a searching panel view ends the search and
\* leaves the selection as it is; for the dialog view the key is not handled
\* and the view is left as it is, searching; whenever a view starts
\* searching, by CK_Search or by a key, the buffer it searches with is
\* empty before the first key is applied.
C24_AbortAndBegin ==
  [][\A v \in Views :
       /\ (/\ ~ub /\ ~ub'
           /\ last'.op = "abort" /\ last'.v = v
           /\ tree[v].searching)
          => /\ tree'[v].selected_ptr = tree[v].selected_ptr
             /\ tree[v].is_panel => ~tree'[v].searching /\ last'.ret
             /\ ~tree[v].is_panel => tree'[v] = tree[v] /\ ~last'.ret
       /\ (/\ ~ub /\ ~ub'
           /\ tree[v].alive /\ ~tree[v].searching
           /\ tree'[v].searching)
          => \/ last'.op = "CK_Search" /\ tree'[v].search_buffer = <<>>
             \/ /\ last'.op = "key"
                /\ tree'[v].search_buffer \in {<<>>, <<last'.key>>}]_vars

C24_Witness ==
  /\ ~ub
  /\ last.op = "abort"
  /\ last.v = 1
  /\ last.n = 1
  /\ ~tree[1].searching
  /\ tree[1].search_buffer = <<"a">>

\* C24 as stated: an abort character ends the search of every view
C24_AbortEndsSearch ==
  [][\A v \in Views :
       (/\ ~ub /\ ~ub'
        /\ last'.op = "abort" /\ last'.v = v
        /\ tree[v].searching)
       => /\ tree'[v].selected_ptr = tree[v].selected_ptr
          /\ ~tree'[v].searching]_vars

\* C26: whatever keys a view has taken, the text a key leaves in
\* search_buffer, before and after the scan, is at most
\* MC_MAXFILENAMELEN - 1 characters long, so that its terminator lies within
\* the buffer.
C26_BufferBounded ==
  [][\A v \in Views :
       (~ub /\ last'.op = "key" /\ last'.v = v /\ last'.ret)
       => /\ Len(EditBuffer(PreBuffer(v), last'.key)) <= MC_MAXFILENAMELEN - 1
          /\ Len(tree'[v].search_buffer) <= MC_MAXFILENAMELEN - 1]_vars

\* C27: a printable key or KEY_BACKSPACE that tree_map does not hold, taken
\* by a view that is not searching, is handled when there is no command
\* prompt: the view is searching afterwards, and the buffer and the
\* selection are those of a search for the one key from an empty buffer.
\* When the key is not handled, the command prompt being there, nothing
\* changes.
C27_KeyFallback ==
  [][\A v \in Views :
       (/\ ~ub /\ ~ub'
        /\ last'.op = "key" /\ last'.v = v
        /\ ~tree[v].searching
        /\ Sel(v) # NULL)
       => IF last'.ret
          THEN LET m == FirstMatch(ScanFrom(store, Sel(v)), <<last'.key>>)
               IN /\ tree'[v].searching
                  /\ tree'[v].search_buffer = IF m = NULL THEN <<>> ELSE <<last'.key>>
                  /\ tree'[v].selected_ptr = IF m = NULL THEN Sel(v) ELSE m
          ELSE /\ tree' = tree
               /\ store' = store
               /\ tree_navigation_flag' = tree_navigation_flag]_vars

C27_Witness ==
  /\ ~ub
  /\ last.op = "key"
  /\ last.v = 1
  /\ last.n = 0
  /\ last.ret
  /\ last.key = "a"
  /\ last.sel = 3
  /\ Sel(1) = 5
  /\ tree[1].searching
  /\ tree[1].search_buffer = <<"a">>

\* C32: while a view is searching over a store nothing is removed from, after
\* every key (a character, KEY_BACKSPACE, or CK_Search for the next match)
\* the subname of the selection starts with the search buffer, letter case
\* included.
C32_BufferIsPrefix ==
  \A v \in Views :
    (~ub /\ tree[v].alive /\ tree[v].searching)
    => /\ Sel(v) # NULL
       /\ StartsWith(Sel(v), tree[v].search_buffer)

C32_Witness ==
  /\ ~ub
  /\ last.op = "key"
  /\ last.key = KEY_BACKSPACE
  /\ last.n = 1
  /\ tree[1].searching
  /\ tree[1].search_buffer = <<"x">>
  /\ Sel(1) = 4

\* C33: after every command of tree_execute_cmd other than CK_Search the view
\* is not searching, and the commands whose handlers move nothing leave the
\* selection; after MSG_UNFOCUS the view is not searching and the selection
\* is the one before.
C33_LeavingSearch ==
  [][\A v \in Views :
       (~ub /\ ~ub' /\ last'.v = v /\ tree[v].alive /\ Sel(v) # NULL)
       => /\ (last'.op \in Commands \ {"CK_Search"})
             => /\ ~tree'[v].searching
                /\ (last'.op \in {"CK_Help", "CK_ToggleNavigation", "CK_Copy",
                                  "CK_Move", "CK_Enter", "CK_Quit"})
                   => tree'[v].selected_ptr = Sel(v)
          /\ (last'.op = "unfocus")
             => /\ ~tree'[v].searching
                /\ ~tree'[v].active
                /\ tree'[v].selected_ptr = Sel(v)]_vars

C33_Witness ==
  /\ ~ub
  /\ last.op = "unfocus"
  /\ last.n = 1
  /\ ~tree[1].searching
  /\ ~tree[1].active
  /\ Sel(1) = 3
  /\ tree[1].tree_shown # <<>>

(***************************************************************************)
(* Claims on show_tree.                                                    *)
(***************************************************************************)
\* C25: show_tree with no selection selects tree_first and sets topdiff to
\* 0; with a selection in the 1d mode it sets topdiff to the lesser of
\* topdiff and the number of entries before the selection, shows the entry
\* that many places before the selection on the first line and the entries
\* that follow it on the lines below, so that tree_shown[topdiff] is the
\* selection whenever topdiff is less than the number of lines.
C25_RenderCorrection ==
  [][(/\ ~ub /\ ~ub'
      /\ last'.op = "show_tree" /\ last'.v = 1)
     => IF Sel(1) = NULL
        THEN /\ tree'[1].selected_ptr = tree_first(store)
             /\ tree'[1].topdiff = 0
        ELSE ~tree_navigation_flag
             => LET p == Pos(store, Sel(1))
                    k == IF tree[1].topdiff <= p - 1 THEN tree[1].topdiff ELSE p - 1
                IN /\ tree'[1].selected_ptr = Sel(1)
                   /\ tree'[1].topdiff = k
                   /\ Len(tree'[1].tree_shown) = tlines(tree[1])
                   /\ \A i \in 1..tlines(tree[1]) :
                        tree'[1].tree_shown[i] =
                          IF p - k + i - 1 <= Len(store) THEN store[p - k + i - 1]
                          ELSE NULL
                   /\ k < tlines(tree[1]) => tree'[1].tree_shown[k + 1] = Sel(1)]_vars

C25_Witness ==
  /\ ~ub
  /\ ~tree_navigation_flag
  /\ last.op = "show_tree"
  /\ last.sel = 3
  /\ last.top = 5
  /\ tree[1].topdiff = 2
  /\ tree[1].tree_shown[1] = 1
  /\ tree[1].tree_shown[3] = 3

\* C30: when the store has no entries, MSG_DRAW of the view completes with
\* nothing undefined, in either mode and searching or not, leaves the
\* selection NULL and every line of tree_shown empty.
C30_EmptyStoreRender ==
  [][(/\ ~ub
      /\ store = <<>>
      /\ last'.op = "draw" /\ last'.v = 1)
     => /\ ~ub'
        /\ tree'[1].selected_ptr = NULL
        /\ \A i \in 1..tlines(tree[1]) : tree'[1].tree_shown[i] = NULL]_vars

(***************************************************************************)
(* Claims on the mouse.                                                    *)
(***************************************************************************)
\* C29: a double click released on line y of the view, after the view has
\* got the focus if it had not, selects the entry tree_shown holds for the
\* line and sets topdiff to y; when tree_shown holds none for the line the
\* selection and topdiff are left; the handler of "enter" runs after that in
\* both cases, and leaves the selection.
C29_DoubleClick ==
  [][(/\ ~ub /\ ~ub'
      /\ last'.op = "mouse" /\ last'.v = 1
      /\ last'.ret
      /\ last'.n \in 0..(tlines(tree[1]) - 1))
     => LET focused == Exec(World, 1, IF tree[1].active THEN <<>>
                                     ELSE <<Stmt("change_panel")>>)
            hit == focused.tree[1].tree_shown[last'.n + 1]
            clicked == IF hit = NULL THEN focused
                       ELSE [focused EXCEPT !.tree[1].selected_ptr = hit,
                                            !.tree[1].topdiff = last'.n]
        IN /\ tree' = Exec(clicked, 1, <<Call("enter")>>).tree
           /\ tree'[1].selected_ptr =
                IF hit = NULL THEN focused.tree[1].selected_ptr ELSE hit]_vars

C29_Witness ==
  /\ ~ub
  /\ last.op = "mouse"
  /\ last.ret
  /\ last.n = 4
  /\ last.sel = 3
  /\ Sel(1) = 6
  /\ tree[1].topdiff = 4

\* C35: in the 1d mode CK_Left and CK_Right do what tree_execute_cmd does
\* for every command and nothing more: the view ends the search and is
\* rendered, which leaves the selection and can only lower topdiff; the
\* store is not rescanned, the mode is left, and the answer is not handled.
C35_FlatLeftRight ==
  [][(/\ ~ub /\ ~ub'
      /\ ~tree_navigation_flag
      /\ last'.op \in {"CK_Left", "CK_Right"} /\ last'.v = 1
      /\ Sel(1) # NULL)
     => /\ tree'[1] = show_tree([tree[1] EXCEPT !.searching = FALSE], store, FALSE)
        /\ tree'[1].selected_ptr = Sel(1)
        /\ tree'[1].topdiff <= tree[1].topdiff
        /\ store' = store
        /\ tree_navigation_flag' = tree_navigation_flag
        /\ ~last'.ret]_vars

C35_Witness ==
  /\ ~ub
  /\ ~tree_navigation_flag
  /\ store = ScenarioStore
  /\ last.op = "CK_Right"
  /\ ~last.ret
  /\ last.sel = 2
  /\ Sel(1) = 2

\* C35 as stated: in the 1d mode CK_Left and CK_Right leave the selection and
\* topdiff as they were, rescan nothing and are reported as not handled.
C35_FlatLeftRightNothing ==
  [][(/\ ~ub /\ ~ub'
      /\ ~tree_navigation_flag
      /\ last'.op \in {"CK_Left", "CK_Right"} /\ last'.v = 1
      /\ Sel(1) # NULL)
     => /\ tree'[1].selected_ptr = Sel(1)
        /\ tree'[1].topdiff = tree[1].topdiff
        /\ store' = store
        /\ ~last'.ret]_vars

(***************************************************************************)
(* Claims on the registration of the handlers.                             *)
(***************************************************************************)
\* C28: the event names the switch of tree_execute_cmd gives are help,
\* forget, navigation_mode_toggle, copy, move, goto_up, goto_down, goto_left,
\* goto_right, goto_home, goto_end, goto_page_up, goto_page_down, enter,
\* rescan, search_begin and rmdir; each of them is in exactly one row of
\* treeview_group_events, so that mc_event_raise finds a handler for it, and
\* the router answers handled for every such command whose handler does not
\* store an answer of its own.
C28_OneHandlerEach ==
  /\ {event_name(command) : command \in Commands \ {"CK_Quit"}} =
       {"help", "forget", "navigation_mode_toggle", "copy", "move", "goto_up",
        "goto_down", "goto_left", "goto_right", "goto_home", "goto_end",
        "goto_page_up", "goto_page_down", "enter", "rescan", "search_begin", "rmdir"}
  /\ \A command \in Commands \ {"CK_Quit"} :
       /\ Cardinality({i \in DOMAIN treeview_group_events :
                         treeview_group_events[i] = event_name(command)}) = 1
       /\ mc_event_raise(event_name(command))
  /\ \A command \in Commands \ {"CK_Quit", "CK_Left", "CK_Right"} :
       Routed(command) => last.ret

C28_Witness ==
  /\ Routed("CK_Reread")
  /\ last.ret
  /\ tree[1].tree_shown # <<>>

(***************************************************************************)
(* Claims on what the view shows.                                          *)
(***************************************************************************)
\* C31: when the store has entries and the view has at least 8 lines, after
\* MSG_DRAW, whatever operations came before it, the selection is on one of
\* the lines of tree_shown, in the 1d and in the 2d mode.
C31_SelectionShown ==
  (/\ ~ub
   /\ last.op = "draw"
   /\ store # <<>>
   /\ tlines(tree[1]) >= 8)
  => \E i \in 1..tlines(tree[1]) : tree[1].tree_shown[i] = Sel(1)

(***************************************************************************)
(* Claims on the scan of search_tree.                                      *)
(***************************************************************************)
\* C38: over a store with entries and from a selection in the store, for
\* every text of up to two keys, the loop of search_tree ends: it advances at
\* most once per entry of the store and wraps to tree_first at most once, so
\* that no entry is tested twice; it ends on the first entry, in the order
\* from the selection on and around, whose subname starts with the text,
\* after one advance for each entry before it, and when there is no such
\* entry it ends back on the selection after as many advances as the store
\* has entries.
C38_ScanTerminates ==
  \A v \in Views :
    (~ub /\ tree[v].alive /\ store # <<>> /\ Sel(v) # NULL /\ InStore(store, Sel(v)))
    => \A text \in {<<>>} \cup {<<k>> : k \in Keys}
                        \cup {<<k, l>> : k \in Keys, l \in Keys} :
         LET r == SearchLoop(store, Sel(v), Sel(v), FALSE, 0, text)
             order == ScanFrom(store, Sel(v))
             match == FirstMatch(order, text)
         IN /\ r.topdiff <= Len(store)
            /\ r.found <=> match # NULL
            /\ r.found => /\ r.ptr = match
                          /\ r.topdiff = Pos(order, match) - 1
            /\ ~r.found => /\ r.ptr = Sel(v)
                           /\ r.topdiff = Len(store)

C38_Witness ==
  /\ ~ub
  /\ store = FullStore
  /\ last.op = "key"
  /\ last.v = 1
  /\ last.key = "a"
  /\ last.sel = 10
  /\ Sel(1) = 2
  /\ tree[1].searching
  /\ tree[1].search_buffer = <<"a">>

=============================================================================
